---- MODULE Spec2Model ----
(***************************************************************************)
(* Model of the Discord provider monitor (monitorDiscordProvider): the     *)
(* MessageCreate handler, its admission policy, the per-channel history    *)
(* store, the reply generator's callbacks and the outbound delivery.       *)
(* Strings are sequences of one-character strings, so that trimming,       *)
(* case folding, prefix stripping and slug folding are computed.           *)
(***************************************************************************)
EXTENDS Integers, Sequences, FiniteSets, TLC

\* ------------------------------------------------------------------------
\* Bounds of the model
\* ------------------------------------------------------------------------
\* Largest configured history limit explored.
MaxHistoryLimit == 2
\* Number of inbound messages of the history scenario.
MaxMsgs == 3
\* Largest number of block replies the reply generator emits in one turn.
MaxBlocks == 2
\* Largest number of final reply payloads the generator returns.
MaxReplies == 2

\* Absent string (undefined / null in the source); a present string is a
\* sequence of one-character strings.  Absent records are the empty sequence
\* and present ones a one-element sequence.
None == << "<none>" >>

\* ------------------------------------------------------------------------
\* Strings
\* ------------------------------------------------------------------------
Digits == {"0", "1", "2", "3", "4", "5", "6", "7", "8", "9"}
LowerSeq == << "a", "b", "c", "d", "e", "f", "g", "h", "i", "j", "k", "l", "m",
               "n", "o", "p", "q", "r", "s", "t", "u", "v", "w", "x", "y", "z" >>
UpperSeq == << "A", "B", "C", "D", "E", "F", "G", "H", "I", "J", "K", "L", "M",
               "N", "O", "P", "Q", "R", "S", "T", "U", "V", "W", "X", "Y", "Z" >>
LowerAlpha == { LowerSeq[i] : i \in DOMAIN LowerSeq }
IsSpace(c) == c = " "

ToLowerChar(c) ==
  IF \E i \in DOMAIN UpperSeq : UpperSeq[i] = c
  THEN LowerSeq[CHOOSE i \in DOMAIN UpperSeq : UpperSeq[i] = c]
  ELSE c

\* String.prototype.toLowerCase
ToLower(s) == [i \in DOMAIN s |-> ToLowerChar(s[i])]

RECURSIVE TrimLeft(_)
TrimLeft(s) == IF s # << >> /\ IsSpace(Head(s)) THEN TrimLeft(Tail(s)) ELSE s

RECURSIVE TrimRight(_)
TrimRight(s) ==
  IF s # << >> /\ IsSpace(s[Len(s)]) THEN TrimRight(SubSeq(s, 1, Len(s) - 1)) ELSE s

\* String.prototype.trim
Trim(s) == TrimRight(TrimLeft(s))

\* String.prototype.startsWith
StartsWith(s, p) == Len(s) >= Len(p) /\ SubSeq(s, 1, Len(p)) = p

\* String.prototype.slice(n)
SliceFrom(s, n) == SubSeq(s, n + 1, Len(s))

AllDigits(s) == s # << >> /\ \A i \in DOMAIN s : s[i] \in Digits

\* text.replace(/^X+/, "") for a character class X
RECURSIVE StripLeading(_, _)
StripLeading(s, cls) ==
  IF s # << >> /\ Head(s) \in cls THEN StripLeading(Tail(s), cls) ELSE s

RECURSIVE StripTrailing(_, _)
StripTrailing(s, cls) ==
  IF s # << >> /\ s[Len(s)] \in cls
  THEN StripTrailing(SubSeq(s, 1, Len(s) - 1), cls)
  ELSE s

\* text.replace(/[cls]+/g, "-"): every maximal run of characters of the class
\* becomes one "-".
RECURSIVE ReplaceRuns(_, _)
ReplaceRuns(s, cls) ==
  IF s = << >> THEN << >>
  ELSE IF Head(s) \in cls
       THEN << "-" >> \o ReplaceRuns(StripLeading(s, cls), cls)
       ELSE << Head(s) >> \o ReplaceRuns(Tail(s), cls)

CharsOf(s) == { s[i] : i \in DOMAIN s }

\* normalizeDiscordName
normalizeDiscordName(value) ==
  IF value = None \/ value = << >> THEN << >> ELSE ToLower(Trim(value))

\* text.replace(/[^a-z0-9-]+/g, "-")
ReplaceNonSlugRuns(text) ==
  ReplaceRuns(text, CharsOf(text) \ (LowerAlpha \cup Digits \cup {"-"}))

\* The replacements of normalizeDiscordSlug on the trimmed, lower-cased text:
\* leading @ and # dropped, runs of whitespace and _ and runs of other
\* characters replaced by "-", runs of "-" collapsed, outer "-" dropped.
SlugFold(text) ==
  IF text = << >> THEN << >>
  ELSE StripTrailing(
         StripLeading(
           ReplaceRuns(
             ReplaceNonSlugRuns(ReplaceRuns(StripLeading(text, {"@", "#"}), {" ", "_"})),
             {"-"}),
           {"-"}),
         {"-"})

\* normalizeDiscordSlug
normalizeDiscordSlug(value) ==
  IF value = None \/ value = << >> THEN << >> ELSE SlugFold(ToLower(Trim(value)))

\* ------------------------------------------------------------------------
\* Allow-lists
\* ------------------------------------------------------------------------
\* The prefix loop of normalizeDiscordAllowList: the first prefix the
\* lower-cased entry starts with is cut off.
RECURSIVE StripPrefix(_, _)
StripPrefix(entry, prefixes) ==
  IF prefixes = << >> THEN entry
  ELSE IF StartsWith(ToLower(entry), Head(prefixes))
       THEN SliceFrom(entry, Len(Head(prefixes)))
       ELSE StripPrefix(entry, Tail(prefixes))

\* entry.match(/^<[@#][!]?(\d+)>$/): the captured digits, or None.
MentionMatch(entry) ==
  IF Len(entry) >= 4 /\ entry[1] = "<" /\ entry[2] \in {"@", "#"} /\ entry[Len(entry)] = ">"
  THEN LET inner == SubSeq(entry, 3, Len(entry) - 1)
           digits == IF Head(inner) = "!" THEN Tail(inner) ELSE inner
       IN  IF AllDigits(digits) THEN digits ELSE None
  ELSE None

\* if (entry.startsWith("@") || entry.startsWith("#")) entry = entry.slice(1)
StripSigil(entry) ==
  IF entry # << >> /\ Head(entry) \in {"@", "#"} THEN Tail(entry) ELSE entry

\* The end of the loop body of normalizeDiscordAllowList: an all-digit entry
\* is an id, any other is added lower-cased and slug-folded to the names.
AllowListAddPlain(acc, entry) ==
  IF AllDigits(entry) THEN [acc EXCEPT !.ids = @ \cup {entry}]
  ELSE [acc EXCEPT !.names =
          @ \cup ({normalizeDiscordName(entry), normalizeDiscordSlug(entry)} \ {<< >>})]

\* The loop body after the prefix was cut: a mention adds its id.
AllowListAddEntry(acc, entry, mention) ==
  IF mention # None THEN [acc EXCEPT !.ids = @ \cup {mention}]
  ELSE AllowListAddPlain(acc, StripSigil(Trim(entry)))

\* The loop body on the trimmed entry: blank entries are skipped, "*" sets
\* allowAll.
AllowListAddTrimmed(acc, entry, prefixes) ==
  IF entry = << >> THEN acc
  ELSE IF entry = << "*" >> THEN [acc EXCEPT !.allowAll = TRUE]
  ELSE AllowListAddEntry(acc, StripPrefix(entry, prefixes),
                         MentionMatch(StripPrefix(entry, prefixes)))

\* One iteration of the loop of normalizeDiscordAllowList: the accumulator
\* after rawEntry.
AllowListStep(acc, rawEntry, prefixes) == AllowListAddTrimmed(acc, Trim(rawEntry), prefixes)

RECURSIVE AllowListLoop(_, _, _)
AllowListLoop(acc, raw, prefixes) ==
  IF raw = << >> THEN acc
  ELSE AllowListLoop(AllowListStep(acc, Head(raw), prefixes), Tail(raw), prefixes)

\* if (!allowAll && ids.size === 0 && names.size === 0) return null
AllowListOrNull(list) ==
  IF ~list.allowAll /\ list.ids = {} /\ list.names = {} THEN << >> ELSE << list >>

\* normalizeDiscordAllowList: << >> is null, << list >> a DiscordAllowList.
normalizeDiscordAllowList(raw, prefixes) ==
  IF raw = << >> THEN << >>
  ELSE AllowListOrNull(
         AllowListLoop([allowAll |-> FALSE, ids |-> {}, names |-> {}], raw, prefixes))

\* normalized && allowList.names.has(normalized)
HasName(allowList, normalized) == normalized # << >> /\ normalized \in allowList.names

\* allowListMatches without the slug-folded forms.
allowListMatchesNoSlug(allowList, candidate) ==
  \/ allowList.allowAll
  \/ candidate.id # None /\ candidate.id # << >> /\ candidate.id \in allowList.ids
  \/ HasName(allowList, normalizeDiscordName(candidate.name))
  \/ HasName(allowList, normalizeDiscordName(candidate.tag))

\* allowListMatches; a candidate is [id, name, tag], each a string or None.
allowListMatches(allowList, candidate) ==
  \/ allowList.allowAll
  \/ candidate.id # None /\ candidate.id # << >> /\ candidate.id \in allowList.ids
  \/ HasName(allowList, normalizeDiscordName(candidate.name))
  \/ HasName(allowList, normalizeDiscordName(candidate.tag))
  \/ HasName(allowList, normalizeDiscordSlug(candidate.name))
  \/ HasName(allowList, normalizeDiscordSlug(candidate.tag))

DiscordUserPrefixes == << <<"d","i","s","c","o","r","d",":">>, <<"u","s","e","r",":">> >>
ChannelPrefixes == << <<"c","h","a","n","n","e","l",":">> >>

\* ------------------------------------------------------------------------
\* Guild and channel configuration
\* ------------------------------------------------------------------------
\* A Record<string, T> of the configuration is a sequence of [key, entry]
\* pairs with distinct keys, in insertion order.  entries[key] as an optional
\* value: << >> when the key is absent.
RECURSIVE Lookup(_, _)
Lookup(entries, key) ==
  IF entries = << >> THEN << >>
  ELSE IF Head(entries).key = key THEN << Head(entries).entry >>
  ELSE Lookup(Tail(entries), key)

\* a ?? b for optional values
Coalesce(a, b) == IF a # << >> THEN a ELSE b

\* entrySlug && entrySlug === guildSlug
SlugMatches(entrySlug, guildSlug) == entrySlug # << >> /\ entrySlug = guildSlug

\* Object.entries(guildEntries).find(...) of resolveDiscordGuildEntry: the
\* first entry whose slug, slug-folded, is non-empty and equals guildSlug.
RECURSIVE FindBySlug(_, _)
FindBySlug(entries, guildSlug) ==
  IF entries = << >> THEN << >>
  ELSE IF SlugMatches(normalizeDiscordSlug(Head(entries).entry.slug), guildSlug)
       THEN << Head(entries).entry >>
       ELSE FindBySlug(Tail(entries), guildSlug)

ResolvedGuild(guildId, guildSlug, entry) ==
  [ id |-> guildId,
    slug |-> IF entry.slug # None THEN entry.slug ELSE guildSlug,
    requireMention |-> entry.requireMention,
    reactionNotifications |-> entry.reactionNotifications,
    users |-> entry.users,
    channels |-> entry.channels ]

\* The entry resolveDiscordGuildEntry picks, in its order of precedence: the
\* key equal to the guild id, the key equal to the guild's slug, the first
\* entry whose own slug folds to the guild's slug, the "*" key.
GuildEntryFor(guildId, guildSlug, guildEntries) ==
  Coalesce(Lookup(guildEntries, guildId),
    Coalesce(IF guildSlug # << >> THEN Lookup(guildEntries, guildSlug) ELSE << >>,
      Coalesce(FindBySlug(guildEntries, guildSlug),
               Lookup(guildEntries, << "*" >>))))

ResolvedGuildOrNull(guildId, guildSlug, found) ==
  IF found = << >> THEN << >> ELSE << ResolvedGuild(guildId, guildSlug, found[1]) >>

ResolveGuildBySlug(guildId, guildSlug, guildEntries) ==
  ResolvedGuildOrNull(guildId, guildSlug, GuildEntryFor(guildId, guildSlug, guildEntries))

\* resolveDiscordGuildEntry; guild is << >> or << [id, name] >>.
resolveDiscordGuildEntry(guild, guildEntries) ==
  IF guild = << >> \/ guildEntries = << >> THEN << >>
  ELSE ResolveGuildBySlug(guild[1].id, normalizeDiscordSlug(guild[1].name), guildEntries)

\* resolveDiscordChannelConfig; the result is [allowed, requireMention], the
\* latter an optional boolean.
\* The channel entry resolveDiscordChannelConfig picks: the key equal to the
\* channel id, else the channel slug or "#" + slug, else the slug-folded name.
ChannelEntryFor(channelEntries, channelId, channelName, channelSlug) ==
  Coalesce(Lookup(channelEntries, channelId),
    Coalesce(IF channelSlug # << >>
             THEN Coalesce(Lookup(channelEntries, channelSlug),
                           Lookup(channelEntries, << "#" >> \o channelSlug))
             ELSE << >>,
             IF channelName # None /\ channelName # << >>
             THEN Lookup(channelEntries, normalizeDiscordSlug(channelName))
             ELSE << >>))

ChannelConfigOfEntry(channelEntries, entry) ==
  IF channelEntries # << >>
  THEN IF entry = << >> THEN [allowed |-> FALSE, requireMention |-> << >>]
       ELSE [allowed |-> entry[1].allow # << FALSE >>,
             requireMention |-> entry[1].requireMention]
  ELSE [allowed |-> TRUE, requireMention |-> << >>]

ChannelConfigIn(channelEntries, channelId, channelName, channelSlug) ==
  ChannelConfigOfEntry(channelEntries,
    ChannelEntryFor(channelEntries, channelId, channelName, channelSlug))

resolveDiscordChannelConfig(guildInfo, channelId, channelName, channelSlug) ==
  ChannelConfigIn(IF guildInfo = << >> THEN << >> ELSE guildInfo[1].channels,
                  channelId, channelName, channelSlug)

\* resolveGroupDmAllow
GroupDmAllowedBy(allowList, channelId, channelName, channelSlug) ==
  IF allowList = << >> THEN TRUE
  ELSE allowListMatches(allowList[1],
         [id |-> channelId,
          name |-> IF channelSlug # << >> THEN channelSlug ELSE channelName,
          tag |-> None])

resolveGroupDmAllow(channels, channelId, channelName, channelSlug) ==
  IF channels = << >> THEN TRUE
  ELSE GroupDmAllowedBy(normalizeDiscordAllowList(channels, ChannelPrefixes),
                        channelId, channelName, channelSlug)

\* The "allowlist" mode of shouldEmitDiscordReactionNotification: the list
\* must be non-empty, build an allow-list, and match the reacting user.
ReactorListed(allowlist, candidate) ==
  /\ allowlist # << >>
  /\ normalizeDiscordAllowList(allowlist, DiscordUserPrefixes) # << >>
  /\ allowListMatches(normalizeDiscordAllowList(allowlist, DiscordUserPrefixes)[1], candidate)

\* The "own" mode: both ids are known and the reacted message is the bot's.
OwnMessage(bot, messageAuthorId) ==
  /\ bot # << >> /\ bot # None
  /\ messageAuthorId # << >> /\ messageAuthorId # None
  /\ messageAuthorId = bot

\* shouldEmitDiscordReactionNotification with every mode but "off" notifying.
shouldEmitUnlessOff(mode, bot, messageAuthorId, candidate, allowlist) == mode # "off"

\* shouldEmitDiscordReactionNotification; mode is "unset" for undefined, and
\* any mode but "off", "own" and "allowlist" notifies.
shouldEmitDiscordReactionNotification(mode, bot, messageAuthorId, candidate, allowlist) ==
  IF mode = "off" THEN FALSE
  ELSE IF mode = "own" \/ mode = "unset" THEN OwnMessage(bot, messageAuthorId)
  ELSE IF mode = "allowlist" THEN ReactorListed(allowlist, candidate)
  ELSE TRUE

\* ------------------------------------------------------------------------
\* Outbound delivery: pure parts
\* ------------------------------------------------------------------------
\* Discord's hard limit on the length of one message (deliverReplies).
DiscordMaxChars == 2000

Min(a, b) == IF a <= b THEN a ELSE b
Max(a, b) == IF a >= b THEN a ELSE b

\* resolveDiscordReplyTarget with mode "first" handled as mode "all".
resolveDiscordReplyTargetAll(replyToMode, replyToId, hasReplied) ==
  IF replyToMode = "off" \/ replyToId = None \/ Trim(replyToId) = << >> THEN None
  ELSE Trim(replyToId)

\* resolveDiscordReplyTarget: the reply reference of one send, or None.
resolveDiscordReplyTarget(replyToMode, replyToId, hasReplied) ==
  LET trimmed == IF replyToId = None THEN << >> ELSE Trim(replyToId)
  IN  IF replyToMode = "off" THEN None
      ELSE IF trimmed = << >> THEN None
      ELSE IF replyToMode = "all" THEN trimmed
      ELSE IF hasReplied THEN None ELSE trimmed

\* chunkText of ../auto-reply/chunk.js: consecutive pieces of at most limit
\* characters that concatenate to the text; no piece for an empty text.
RECURSIVE chunkText(_, _)
chunkText(text, limit) ==
  IF text = << >> THEN << >>
  ELSE IF Len(text) <= limit THEN << text >>
  ELSE << SubSeq(text, 1, limit) >> \o chunkText(SubSeq(text, limit + 1, Len(text)), limit)

\* payload.mediaUrls ?? (payload.mediaUrl ? [payload.mediaUrl] : [])
MediaList(payload) ==
  IF payload.mediaUrls # << >> THEN payload.mediaUrls[1]
  ELSE IF payload.mediaUrl # None /\ payload.mediaUrl # << >> THEN << payload.mediaUrl >>
  ELSE << >>

\* payload.text ?? ""
PayloadText(payload) == IF payload.text = None THEN << >> ELSE payload.text

\* The sends one payload makes in deliverReplies, in order: one per chunk of
\* a text-only payload, one per media URL otherwise (the first with the text
\* as caption); none for a payload without text and media.
\* TextSends with the chunks taken from the last to the first.
TextSendsReversed(chunks, index, replyToId) ==
  [i \in DOMAIN chunks |->
     [payload |-> index, text |-> chunks[Len(chunks) + 1 - i], mediaUrl |-> None,
      replyToId |-> replyToId]]

TextSends(chunks, index, replyToId) ==
  [i \in DOMAIN chunks |->
     [payload |-> index, text |-> chunks[i], mediaUrl |-> None, replyToId |-> replyToId]]

\* MediaSends with the text as caption of every send.
MediaSendsAllCaptioned(mediaList, text, index, replyToId) ==
  [i \in DOMAIN mediaList |->
     [payload |-> index, text |-> text, mediaUrl |-> mediaList[i], replyToId |-> replyToId]]

MediaSends(mediaList, text, index, replyToId) ==
  [i \in DOMAIN mediaList |->
     [payload |-> index, text |-> IF i = 1 THEN text ELSE << >>,
      mediaUrl |-> mediaList[i], replyToId |-> replyToId]]

SendsOf(mediaList, text, index, replyToId, limit) ==
  IF text = << >> /\ mediaList = << >> THEN << >>
  ELSE IF mediaList = << >> THEN TextSends(chunkText(text, limit), index, replyToId)
  ELSE MediaSends(mediaList, text, index, replyToId)

PayloadSends(payload, index, limit) ==
  SendsOf(MediaList(payload), PayloadText(payload), index, payload.replyToId, limit)

\* The sends of one deliverReplies call over replies[from..], in order.
RECURSIVE SendPlanFrom(_, _, _)
SendPlanFrom(replies, from, limit) ==
  IF from > Len(replies) THEN << >>
  ELSE PayloadSends(replies[from], from, limit) \o SendPlanFrom(replies, from + 1, limit)

SendPlan(replies, limit) == SendPlanFrom(replies, 1, limit)

\* The guard of sendBlockReply: a payload with no text, no mediaUrl and no
\* mediaUrls is not queued.
BlockReplyIsEmpty(payload) ==
  /\ PayloadText(payload) = << >>
  /\ (payload.mediaUrl = None \/ payload.mediaUrl = << >>)
  /\ (payload.mediaUrls = << >> \/ payload.mediaUrls[1] = << >>)

\* ------------------------------------------------------------------------
\* State
\* ------------------------------------------------------------------------
VARIABLES
  cfg,             \* the loaded configuration and options (read-only after load)
  world,           \* what the collaborators may do: the reply generator's
                   \* payloads, whether it may throw, whether a send may fail
  inbox,           \* events the Discord client has yet to emit, in order: messages,
                   \* reactions and interactions
  turns,           \* one record per emitted MessageCreate event, in arrival order
  guildHistories,  \* channel id -> history entries (a missing key is << >>)
  lastRoute,       \* the session store's last route: << >> or << [channel, to] >>
  systemEvents,    \* enqueueSystemEvent calls, in order
  outbox,          \* per turn, its sendMessageDiscord calls that have settled, in order
  appended,        \* channel id -> every history entry ever pushed, in order
  slashTurns,      \* one record per emitted InteractionCreate event, in arrival order
  monitor,         \* the promise of monitorDiscordProvider, the abort signal and the
                   \* client's connection
  job,             \* a cron payload under migrateLegacyCronPayload
  cli              \* a run of the command "nodes camera snap"

vars == << cfg, world, inbox, turns, guildHistories, lastRoute, systemEvents, outbox, appended,
          slashTurns, monitor, job, cli >>

\* client.user.id once the client is ready
botId == << "9", "9" >>

DefaultHistoryLimit == 20
\* Math.max(0, opts.historyLimit ?? cfg.discord?.historyLimit ?? 20)
historyLimit ==
  Max(0, Coalesce(Coalesce(cfg.optHistoryLimit, cfg.discordHistoryLimit),
                  << DefaultHistoryLimit >>)[1])

\* opts.replyToMode ?? cfg.discord?.replyToMode ?? "off"
replyToMode ==
  IF cfg.optReplyToMode # "unset" THEN cfg.optReplyToMode
  ELSE IF cfg.discordReplyToMode # "unset" THEN cfg.discordReplyToMode
  ELSE "off"

\* Math.min(textLimit, 2000) of deliverReplies
chunkLimit == Min(cfg.textLimit, DiscordMaxChars)

\* ------------------------------------------------------------------------
\* MessageCreate: the checks before the first suspension
\* ------------------------------------------------------------------------
isGroupDm(m) == m.channelType = "GroupDM"
isDirectMessage(m) == m.channelType = "DM"
isGuildMessage(m) == m.guild # << >>

\* !isDirectMessage && Boolean(botId && message.mentions.has(botId))
wasMentioned(m) == ~isDirectMessage(m) /\ botId # << >> /\ m.mentionsBot

\* inferPlaceholder
inferPlaceholder(attachment) ==
  LET mime == IF attachment.contentType = None THEN << >> ELSE attachment.contentType
  IN  IF StartsWith(mime, << "i", "m", "a", "g", "e", "/" >>) THEN << "<media:image>" >>
      ELSE IF StartsWith(mime, << "v", "i", "d", "e", "o", "/" >>) THEN << "<media:video>" >>
      ELSE IF StartsWith(mime, << "a", "u", "d", "i", "o", "/" >>) THEN << "<media:audio>" >>
      ELSE << "<media:document>" >>

\* a || b on strings: an absent or empty string is falsy
OrElse(a, b) == IF a # None /\ a # << >> THEN a ELSE b

TrimOpt(s) == IF s = None THEN None ELSE Trim(s)

\* resolveDiscordSnapshotText of the forwarded snapshot, "" without one
forwardedText(m) == IF m.snapshot = << >> THEN << >> ELSE m.snapshot[1].text

\* resolveDiscordMessageText(message, forwardedText)
resolveDiscordMessageText(m) ==
  OrElse(TrimOpt(m.content),
    OrElse(IF m.attachment # << >> THEN inferPlaceholder(m.attachment[1]) ELSE << >>,
      OrElse(m.embedDescription,
        OrElse(Trim(forwardedText(m)), << >>))))

SystemTypes == { "ChannelPinnedMessage", "RecipientAdd", "RecipientRemove", "UserJoin",
                 "GuildBoost", "GuildBoostTier1", "GuildBoostTier2", "GuildBoostTier3",
                 "ThreadCreated", "AutoModerationAction", "GuildIncidentAlertModeEnabled",
                 "GuildIncidentAlertModeDisabled", "GuildIncidentReportRaid",
                 "GuildIncidentReportFalseAlarm", "StageStart", "StageEnd", "StageSpeaker",
                 "StageTopic", "PollResult", "PurchaseNotification" }

\* resolveDiscordSystemEvent: whether the message type is a system event
resolveDiscordSystemEvent(m) == m.type \in SystemTypes

guildInfoOf(m) ==
  IF isGuildMessage(m) THEN resolveDiscordGuildEntry(m.guild, cfg.guildEntries) ELSE << >>

channelSlugOf(m) ==
  IF (isGuildMessage(m) \/ isGroupDm(m)) /\ m.channelName # None
  THEN normalizeDiscordSlug(m.channelName) ELSE << >>

channelNameOf(m) ==
  IF isGuildMessage(m) \/ isGroupDm(m) THEN m.channelName ELSE None

\* channelConfig of the handler: << >> for a message outside a guild
channelConfigOf(m) ==
  IF isGuildMessage(m)
  THEN << resolveDiscordChannelConfig(guildInfoOf(m), m.channelId, channelNameOf(m),
                                       channelSlugOf(m)) >>
  ELSE << >>

Candidate(author) == [id |-> author.id, name |-> author.username, tag |-> author.tag]

\* The early returns before the history append (author, chat-type toggles,
\* command messages, guild gate, group-DM gate, channel gate): the reason, or
\* "" when the message passes.
EarlyDrop(m) ==
  IF m.author = << >> \/ m.author[1].bot THEN "bot-or-no-author"
  ELSE IF isGroupDm(m) /\ ~cfg.groupDmEnabled THEN "group-dm-disabled"
  ELSE IF isDirectMessage(m) /\ ~cfg.dmEnabled THEN "dm-disabled"
  ELSE IF isGuildMessage(m) /\ m.type \in {"ChatInputCommand", "ContextMenuCommand"}
       THEN "command-message"
  ELSE IF isGuildMessage(m) /\ cfg.guildEntries # << >> /\ guildInfoOf(m) = << >>
       THEN "guild-not-configured"
  ELSE IF isGroupDm(m) /\ ~resolveGroupDmAllow(cfg.groupDmChannels, m.channelId,
                                                channelNameOf(m), channelSlugOf(m))
       THEN "group-dm-not-allowed"
  ELSE IF isGuildMessage(m) /\ ~channelConfigOf(m)[1].allowed THEN "channel-not-allowed"
  ELSE ""

\* if (isGuildMessage && historyLimit > 0 && baseText)
RecordsHistory(m) ==
  isGuildMessage(m) /\ historyLimit > 0 /\ resolveDiscordMessageText(m) # << >>

\* channelConfig?.requireMention ?? guildInfo?.requireMention ?? true
RequireMentionOf(config) == IF config = << >> THEN << >> ELSE config[1].requireMention

resolvedRequireMention(m) ==
  Coalesce(Coalesce(RequireMentionOf(channelConfigOf(m)), RequireMentionOf(guildInfoOf(m))),
           << TRUE >>)[1]

\* The mention gate: a guild message is dropped when a mention is required
\* and the bot was not mentioned.
MentionGateDrops(m) ==
  isGuildMessage(m) /\ resolvedRequireMention(m) /\ botId # << >> /\ ~wasMentioned(m)

\* The guild users allow-list check
UsersOf(guildInfo) == IF guildInfo = << >> THEN << >> ELSE guildInfo[1].users

\* userOk = !users || allowListMatches(users, author)
UserOk(users, author) == users = << >> \/ allowListMatches(users[1], Candidate(author))

UserBlockedBy(userAllow, author) ==
  /\ userAllow # << >>
  /\ ~UserOk(normalizeDiscordAllowList(userAllow, DiscordUserPrefixes), author)

GuildUserBlocked(m) == isGuildMessage(m) /\ UserBlockedBy(UsersOf(guildInfoOf(m)), m.author[1])

\* The dm.allowFrom check, a list that normalizes to null permitting.
PermittedOrNull(allowList, author) ==
  allowList = << >> \/ allowListMatches(allowList[1], Candidate(author))

\* The dm.allowFrom check
\* permitted = allowList && allowListMatches(allowList, author)
Permitted(allowList, author) ==
  allowList # << >> /\ allowListMatches(allowList[1], Candidate(author))

DmSenderBlocked(m) ==
  /\ isDirectMessage(m)
  /\ cfg.allowFrom # << >>
  /\ ~Permitted(normalizeDiscordAllowList(cfg.allowFrom, DiscordUserPrefixes), m.author[1])

\* The early returns after the history append: the reason, or "".
LateDrop(m) ==
  IF MentionGateDrops(m) THEN "no-mention"
  ELSE IF GuildUserBlocked(m) THEN "guild-user-not-allowed"
  ELSE IF DmSenderBlocked(m) THEN "dm-sender-not-allowed"
  ELSE ""

\* ------------------------------------------------------------------------
\* handleReactionEvent
\* ------------------------------------------------------------------------
\* A reaction event is [action, user, message]: the reaction and its message
\* are already fetched (not partial).
reactionGuildInfo(r) == resolveDiscordGuildEntry(r.message.guild, cfg.guildEntries)

reactionChannelSlug(r) ==
  IF r.message.channelName # None /\ r.message.channelName # << >>
  THEN normalizeDiscordSlug(r.message.channelName) ELSE << >>

reactionChannelConfig(r) ==
  resolveDiscordChannelConfig(reactionGuildInfo(r), r.message.channelId,
                              r.message.channelName, reactionChannelSlug(r))

\* guildInfo?.reactionNotifications ?? "own"
reactionMode(guildInfo) ==
  IF guildInfo = << >> \/ guildInfo[1].reactionNotifications = "unset" THEN "own"
  ELSE guildInfo[1].reactionNotifications

shouldNotify(r) ==
  shouldEmitDiscordReactionNotification(
    reactionMode(reactionGuildInfo(r)), botId, r.message.authorId,
    Candidate(r.user[1]), UsersOf(reactionGuildInfo(r)))

\* ReactionDrop without the check of the guild entries.
ReactionDropNoGuildGate(r) ==
  IF r.user = << >> \/ r.user[1].bot THEN "bot-or-no-user"
  ELSE IF r.message.guild = << >> THEN "no-guild"
  ELSE IF ~reactionChannelConfig(r).allowed THEN "channel-not-allowed"
  ELSE IF botId # << >> /\ r.user[1].id = botId THEN "own-reaction"
  ELSE IF ~shouldNotify(r) THEN "not-notified"
  ELSE ""

\* The early returns of handleReactionEvent: the reason, or "" when the
\* reaction is notified.
ReactionDrop(r) ==
  IF r.user = << >> \/ r.user[1].bot THEN "bot-or-no-user"
  ELSE IF r.message.guild = << >> THEN "no-guild"
  ELSE IF cfg.guildEntries # << >> /\ reactionGuildInfo(r) = << >> THEN "guild-not-configured"
  ELSE IF ~reactionChannelConfig(r).allowed THEN "channel-not-allowed"
  ELSE IF botId # << >> /\ r.user[1].id = botId THEN "own-reaction"
  ELSE IF ~shouldNotify(r) THEN "not-notified"
  ELSE ""

\* enqueueSystemEvent(text, {contextKey: discord:reaction:<action>:<message
\* id>:<user id>:<emoji>})
ReactionEventOf(r) ==
  [ kind |-> "reaction", action |-> r.action, channelId |-> r.message.channelId,
    id |-> r.message.id, userId |-> r.user[1].id ]

\* ------------------------------------------------------------------------
\* InteractionCreate: the slash command
\* ------------------------------------------------------------------------
DefaultSlashName == << "c", "l", "a", "w", "d" >>
DefaultSessionPrefix == << "d", "i", "s", "c", "o", "r", "d", ":", "s", "l", "a", "s", "h" >>

\* raw?.field?.trim() || fallback
TrimmedOr(value, fallback) ==
  IF value = None \/ Trim(value) = << >> THEN fallback ELSE Trim(value)

\* resolveSlashCommandConfig of opts.slashCommand ?? cfg.discord?.slashCommand
\* (<< >> when neither is set).
resolveSlashCommandConfig(raw) ==
  [ enabled |-> raw # << >> /\ raw[1].enabled # << FALSE >>,
    name |-> IF raw = << >> THEN DefaultSlashName ELSE TrimmedOr(raw[1].name, DefaultSlashName),
    sessionPrefix |-> IF raw = << >> THEN DefaultSessionPrefix
                      ELSE TrimmedOr(raw[1].sessionPrefix, DefaultSessionPrefix),
    ephemeral |-> raw = << >> \/ raw[1].ephemeral # << FALSE >> ]

slashCommand == resolveSlashCommandConfig(cfg.slashCommand)

\* The chat type of an interaction: channelType is "none" without a channel.
slashIsGroupDm(ia) == ia.channelType = "GroupDM"
slashIsDirectMessage(ia) == ~ia.inGuild /\ ia.channelType = "DM"
slashIsGuildMessage(ia) == ia.inGuild

slashGuildInfo(ia) == resolveDiscordGuildEntry(ia.guild, cfg.guildEntries)

slashChannelSlug(ia) ==
  IF ia.channelName # None /\ ia.channelName # << >>
  THEN normalizeDiscordSlug(ia.channelName) ELSE << >>

\* The admission checks of a guild interaction: guild entry, channel
\* config, guild users.
SlashGuildDrop(ia) ==
  IF cfg.guildEntries # << >> /\ slashGuildInfo(ia) = << >> THEN "guild-not-configured"
  ELSE IF ~resolveDiscordChannelConfig(slashGuildInfo(ia), ia.channelId, ia.channelName,
                                       slashChannelSlug(ia)).allowed
       THEN "channel-not-allowed"
  ELSE IF UserBlockedBy(UsersOf(slashGuildInfo(ia)), ia.user) THEN "guild-user-not-allowed"
  ELSE ""

SlashDmBlocked(ia) ==
  /\ cfg.allowFrom # << >>
  /\ ~Permitted(normalizeDiscordAllowList(cfg.allowFrom, DiscordUserPrefixes), ia.user)

\* SlashDrop without the checks of dm.enabled and dm.groupEnabled.
SlashDropNoToggles(ia) ==
  IF ~slashCommand.enabled THEN "slash-disabled"
  ELSE IF ~ia.isChatInputCommand THEN "not-chat-input"
  ELSE IF ia.commandName # slashCommand.name THEN "other-command"
  ELSE IF ia.user.bot THEN "bot-user"
  ELSE IF slashIsGuildMessage(ia) THEN SlashGuildDrop(ia)
  ELSE IF slashIsGroupDm(ia)
       THEN IF resolveGroupDmAllow(cfg.groupDmChannels, ia.channelId, ia.channelName,
                                   slashChannelSlug(ia))
            THEN "" ELSE "group-dm-not-allowed"
  ELSE IF slashIsDirectMessage(ia) /\ SlashDmBlocked(ia) THEN "dm-sender-not-allowed"
  ELSE ""

\* The early returns of the InteractionCreate handler: the reason, or "".
SlashDrop(ia) ==
  IF ~slashCommand.enabled THEN "slash-disabled"
  ELSE IF ~ia.isChatInputCommand THEN "not-chat-input"
  ELSE IF ia.commandName # slashCommand.name THEN "other-command"
  ELSE IF ia.user.bot THEN "bot-user"
  ELSE IF slashIsGroupDm(ia) /\ ~cfg.groupDmEnabled THEN "group-dm-disabled"
  ELSE IF slashIsDirectMessage(ia) /\ ~cfg.dmEnabled THEN "dm-disabled"
  ELSE IF slashIsGuildMessage(ia) THEN SlashGuildDrop(ia)
  ELSE IF slashIsGroupDm(ia)
       THEN IF resolveGroupDmAllow(cfg.groupDmChannels, ia.channelId, ia.channelName,
                                   slashChannelSlug(ia))
            THEN "" ELSE "group-dm-not-allowed"
  ELSE IF slashIsDirectMessage(ia) /\ SlashDmBlocked(ia) THEN "dm-sender-not-allowed"
  ELSE ""

\* findFirstStringOption over the options of the command: the first string
\* value that is not blank, trimmed; None without one.  An option that is
\* not a string has the value None.
RECURSIVE findFirstStringOption(_)
findFirstStringOption(options) ==
  IF options = << >> THEN None
  ELSE IF Head(options) # None /\ Trim(Head(options)) # << >> THEN Trim(Head(options))
  ELSE findFirstStringOption(Tail(options))

resolveSlashPrompt(options) == findFirstStringOption(options)

\* The ctxPayload of the slash command.
SlashCtxPayload(ia, prompt) ==
  [ Text |-> prompt,
    History |-> << >>,
    From |-> << "d", "i", "s", "c", "o", "r", "d", ":" >> \o ia.user.id,
    To |-> << "s", "l", "a", "s", "h", ":" >> \o ia.user.id,
    ChatType |-> "direct",
    WasMentioned |-> TRUE,
    MessageSid |-> ia.id,
    MediaPath |-> None,
    SessionKey |-> slashCommand.sessionPrefix \o << ":" >> \o ia.user.id ]

\* The token of ../auto-reply/tokens.js that marks a reply as silent.
SILENT_REPLY_TOKEN == << "<silent>" >>

MessageRequired == << "<Message required.>" >>
NoResponse == << "<No response was generated for that command.>" >>
SomethingWentWrong == << "<Sorry, something went wrong handling that command.>" >>

\* [a, b, ...].filter(Boolean).join("\n")
RECURSIVE JoinLines(_)
JoinLines(parts) ==
  IF parts = << >> THEN << >>
  ELSE IF Head(parts) = << >> THEN JoinLines(Tail(parts))
  ELSE IF JoinLines(Tail(parts)) = << >> THEN Head(parts)
  ELSE Head(parts) \o << "\n" >> \o JoinLines(Tail(parts))

\* The text of a payload in deliverSlashReplies: trimmed, and dropped when
\* it is the silent token.
SlashText(payload) ==
  IF Trim(PayloadText(payload)) = SILENT_REPLY_TOKEN THEN << >> ELSE Trim(PayloadText(payload))

\* payload.mediaUrls ?? (payload.mediaUrl ? [payload.mediaUrl] : []), each
\* URL trimmed
SlashMedia(payload) == [i \in DOMAIN MediaList(payload) |-> Trim(MediaList(payload)[i])]

SlashCombined(payload) == JoinLines(<< SlashText(payload) >> \o SlashMedia(payload))

\* The messages of deliverSlashReplies: the chunks of every payload's
\* combined text, in order.
RECURSIVE SlashMessages(_, _)
SlashMessages(replies, limit) ==
  IF replies = << >> THEN << >>
  ELSE chunkText(SlashCombined(Head(replies)), limit) \o SlashMessages(Tail(replies), limit)

\* The handler of one InteractionCreate event.  pc is where it stands:
\* "required" (awaiting the reply "Message required."), "defer" (awaiting
\* deferReply), "gen" (awaiting getReplyFromConfig), "deliver" (awaiting an
\* editReply or followUp of deliverSlashReplies), "error" (awaiting the
\* apology of the catch), "done".  pending is the call of the interaction
\* API in flight, rest the messages deliverSlashReplies has yet to follow up
\* with, responses the settled calls in order.
NewSlashTurn(ia) ==
  [ ia |-> ia, pc |-> "done", outcome |-> "", ctx |-> << >>, genCalled |-> FALSE,
    deferred |-> FALSE, replied |-> FALSE, pending |-> << >>, rest |-> << >>,
    responses |-> << >> ]

ApiCall(api, content, ephemeral) == << [api |-> api, content |-> content, ephemeral |-> ephemeral] >>

\* The handler up to its first suspension.
SlashFirstStep(turn, drop, prompt) ==
  IF drop # "" THEN [turn EXCEPT !.outcome = drop]
  ELSE IF prompt = None
  THEN [turn EXCEPT !.pc = "required", !.pending = ApiCall("reply", MessageRequired, TRUE)]
  ELSE [turn EXCEPT !.pc = "defer",
                    !.pending = ApiCall("deferReply", << >>, slashCommand.ephemeral)]

\* deliverSlashReplies up to its first suspension: editReply with the first
\* message, or with the notice that nothing was generated.
SlashDeliver(turn, messages) ==
  IF messages = << >>
  THEN [turn EXCEPT !.pc = "deliver", !.pending = ApiCall("editReply", NoResponse, FALSE)]
  ELSE [turn EXCEPT !.pc = "deliver", !.rest = Tail(messages),
                    !.pending = ApiCall("editReply", Head(messages), FALSE)]

\* SlashCatch that only logs the error.
SlashCatchSilent(turn, why) ==
  [turn EXCEPT !.pc = "done", !.outcome = why, !.rest = << >>, !.pending = << >>]

\* The catch of the handler: the apology goes out with followUp when the
\* interaction was deferred or replied to, with reply otherwise.
SlashCatch(turn, why) ==
  [turn EXCEPT !.pc = "error", !.outcome = why, !.rest = << >>,
               !.pending = ApiCall(IF turn.deferred \/ turn.replied THEN "followUp" ELSE "reply",
                                   SomethingWentWrong, TRUE)]

\* The handler after its call in flight resolved.
SlashAfterOk(turn) ==
  IF turn.pc = "required"
  THEN [turn EXCEPT !.pc = "done", !.outcome = "message-required", !.replied = TRUE,
                    !.pending = << >>]
  ELSE IF turn.pc = "defer"
  THEN [turn EXCEPT !.pc = "gen", !.deferred = TRUE, !.genCalled = TRUE, !.pending = << >>,
                    !.ctx = << SlashCtxPayload(turn.ia, resolveSlashPrompt(turn.ia.options)) >>]
  ELSE IF turn.pc = "deliver" /\ turn.rest # << >>
  THEN [turn EXCEPT !.rest = Tail(@),
                    !.pending = ApiCall("followUp", Head(turn.rest), slashCommand.ephemeral)]
  ELSE IF turn.pc = "deliver"
  THEN [turn EXCEPT !.pc = "done", !.outcome = "delivered", !.pending = << >>]
  ELSE [turn EXCEPT !.pc = "done", !.pending = << >>]

\* The handler after its call in flight rejected: the catch, or, when the
\* apology itself was rejected, the end of the handler.
SlashAfterFail(turn) ==
  IF turn.pc = "error" THEN [turn EXCEPT !.pc = "done", !.pending = << >>]
  ELSE SlashCatch(turn, "slash-failed")

\* ------------------------------------------------------------------------
\* Turns
\* ------------------------------------------------------------------------
\* The handler of one MessageCreate event.  pc is where the handler stands:
\* "media" (awaiting the attachment download), "route" (awaiting
\* updateLastRoute), "gen" (awaiting getReplyFromConfig), "chain" (awaiting
\* blockSendChain), "deliver" (awaiting the final deliverReplies), "done"
\* (returned, or caught an error).  blockSendChain holds the block payloads
\* whose link of the promise chain has not started; call is the deliverReplies
\* call in progress (<< >> when none), its send number next being in flight;
\* calls counts the deliverReplies calls of the turn that made a send.
NewTurn(m) ==
  [ msg |-> m, pc |-> "done", outcome |-> "", historyPushed |-> FALSE,
    ctx |-> << >>, genCalled |-> FALSE, blocks |-> 0,
    didSendReply |-> FALSE, shouldClearHistory |-> FALSE,
    blockSendChain |-> << >>, call |-> << >>, calls |-> 0, replies |-> << >>,
    clearedHistory |-> FALSE ]

HistoryEntry(m) ==
  [ sender |-> IF m.displayName # None THEN m.displayName ELSE m.author[1].tag,
    body |-> resolveDiscordMessageText(m),
    timestamp |-> m.createdTimestamp,
    messageId |-> m.id ]

\* history.push(entry); while (history.length > historyLimit) history.shift()
RECURSIVE ShiftToLimit(_, _)
ShiftToLimit(history, limit) ==
  IF Len(history) > limit THEN ShiftToLimit(Tail(history), limit) ELSE history

\* PushHistory without the eviction loop.
PushHistoryNoShift(history, entry, limit) == Append(history, entry)

PushHistory(history, entry, limit) == ShiftToLimit(Append(history, entry), limit)

\* historyWithoutCurrent dropping the oldest entry: history.slice(1).
historyWithoutOldest(history) == IF Len(history) > 0 THEN Tail(history) ELSE << >>

\* history.length > 0 ? history.slice(0, -1) : []
historyWithoutCurrent(history) ==
  IF Len(history) > 0 THEN SubSeq(history, 1, Len(history) - 1) ELSE << >>

\* The text of the turn after resolveMedia: message.content?.trim() ??
\* media?.placeholder ?? embeds[0]?.description ?? (forwarded ? ... : "")
TurnText(m, media) ==
  IF m.content # None THEN Trim(m.content)
  ELSE IF media # << >> THEN media[1].placeholder
  ELSE IF m.embedDescription # None THEN m.embedDescription
  ELSE IF m.snapshot # << >> THEN << "<forwarded message>" >>
  ELSE << >>

\* ctxPayload: the message context handed to the reply generator.  History is
\* the "since your last reply" block of combinedBody.
CtxPayload(m, media, text, histories) ==
  [ Text |-> text,
    History |-> IF isDirectMessage(m) THEN << >>
                ELSE historyWithoutCurrent(
                       IF historyLimit > 0 THEN histories[m.channelId] ELSE << >>),
    From |-> IF isDirectMessage(m)
             THEN << "d", "i", "s", "c", "o", "r", "d", ":" >> \o m.author[1].id
             ELSE << "g", "r", "o", "u", "p", ":" >> \o m.channelId,
    To |-> IF isDirectMessage(m)
           THEN << "u", "s", "e", "r", ":" >> \o m.author[1].id
           ELSE << "c", "h", "a", "n", "n", "e", "l", ":" >> \o m.channelId,
    ChatType |-> IF isDirectMessage(m) THEN "direct" ELSE "group",
    WasMentioned |-> wasMentioned(m),
    MessageSid |-> m.id,
    MediaPath |-> IF media = << >> THEN None ELSE media[1].path ]

\* AfterMediaText with updateLastRoute awaited for every chat type.
AfterMediaTextAllRoute(turn, media, text, histories) ==
  IF text = << >> THEN [turn EXCEPT !.pc = "done", !.outcome = "empty-content"]
  ELSE [turn EXCEPT
          !.ctx = << CtxPayload(turn.msg, media, text, histories) >>,
          !.shouldClearHistory = ~isDirectMessage(turn.msg),
          !.pc = "route"]

\* The handler from the return of resolveMedia to its next suspension: an
\* empty text ends it; a direct message next awaits updateLastRoute, any
\* other message getReplyFromConfig.
AfterMediaText(turn, media, text, histories) ==
  IF text = << >> THEN [turn EXCEPT !.pc = "done", !.outcome = "empty-content"]
  ELSE [turn EXCEPT
          !.ctx = << CtxPayload(turn.msg, media, text, histories) >>,
          !.shouldClearHistory = ~isDirectMessage(turn.msg),
          !.pc = IF isDirectMessage(turn.msg) THEN "route" ELSE "gen",
          !.genCalled = ~isDirectMessage(turn.msg)]

AfterMedia(turn, media, histories) ==
  AfterMediaText(turn, media, TurnText(turn.msg, media), histories)

\* A deliverReplies call: its sends, the one in flight, and its local
\* hasReplied flag.
NewCall(kind, plan, no) ==
  [kind |-> kind, plan |-> plan, next |-> 1, hasReplied |-> FALSE, no |-> no]

\* The promise chain of sendBlockReply: when no delivery is in progress the
\* next queued link starts; a link whose deliverReplies makes no send
\* completes at once and sets didSendReply.
StartCall(turn, kind, plan) ==
  [turn EXCEPT !.calls = @ + 1, !.call = << NewCall(kind, plan, turn.calls + 1) >>]

RECURSIVE Pump(_)
PumpWith(turn, plan) ==
  IF plan = << >> THEN Pump([turn EXCEPT !.didSendReply = TRUE])
  ELSE StartCall(turn, "block", plan)

Pump(turn) ==
  IF turn.call # << >> \/ turn.blockSendChain = << >> THEN turn
  ELSE PumpWith([turn EXCEPT !.blockSendChain = Tail(@)],
                SendPlan(<< Head(turn.blockSendChain) >>, chunkLimit))

\* if (isGuildMessage && shouldClearHistory && historyLimit > 0 && didSendReply)
ClearsHistory(turn) ==
  /\ isGuildMessage(turn.msg)
  /\ turn.shouldClearHistory
  /\ historyLimit > 0
  /\ turn.didSendReply

\* The handler after "await blockSendChain" (it stays suspended while the
\* chain is busy): without final replies it clears the history if a reply
\* was sent and returns; otherwise it calls deliverReplies, which makes its
\* first send or, when no payload has text or media, returns at once.
\* The handler after deliverReplies returned: didSendReply = true, then the
\* history clear and the return.
Delivered(turn) ==
  [turn EXCEPT !.didSendReply = TRUE, !.call = << >>, !.pc = "done",
               !.outcome = "delivered",
               !.clearedHistory = ClearsHistory([turn EXCEPT !.didSendReply = TRUE])]

DeliverFinal(turn, plan) ==
  IF plan = << >> THEN Delivered(turn)
  ELSE StartCall([turn EXCEPT !.pc = "deliver"], "final", plan)

\* AfterChain without the wait for blockSendChain.
AfterChainNoWait(turn) ==
  IF turn.pc # "chain" THEN turn
  ELSE IF turn.replies = << >>
  THEN [turn EXCEPT !.pc = "done", !.outcome = "no-replies",
                    !.clearedHistory = ClearsHistory(turn)]
  ELSE DeliverFinal(turn, SendPlan(turn.replies, chunkLimit))

AfterChain(turn) ==
  IF turn.pc # "chain" \/ turn.call # << >> \/ turn.blockSendChain # << >> THEN turn
  ELSE IF turn.replies = << >>
  THEN [turn EXCEPT !.pc = "done", !.outcome = "no-replies",
                    !.clearedHistory = ClearsHistory(turn)]
  ELSE DeliverFinal(turn, SendPlan(turn.replies, chunkLimit))

\* guildHistories after a handler step that may have ended with the clear
\* guildHistories.set(message.channelId, [])
HistoriesAfter(before, after, histories) ==
  IF after.clearedHistory /\ ~before.clearedHistory
  THEN [histories EXCEPT ![after.msg.channelId] = << >>]
  ELSE histories

\* ------------------------------------------------------------------------
\* The inputs explored
\* ------------------------------------------------------------------------
UserAl == [id |-> << "7" >>, username |-> << "A", "l" >>, tag |-> << "A", "l", "#", "1" >>,
           bot |-> FALSE]
UserBo == [id |-> << "8" >>, username |-> << "b", "o" >>, tag |-> << "b", "o", "#", "2" >>,
           bot |-> FALSE]
UserBot == [id |-> << "5" >>, username |-> << "x" >>, tag |-> << "x", "#", "3" >>, bot |-> TRUE]

GuildDev == [id |-> << "1" >>, name |-> << "D", "e", "v" >>]
GuildOps == [id |-> << "2" >>, name |-> << "O", "p", "s" >>]

ChanGen == [id |-> << "4", "1" >>, name |-> << "g", "e", "n" >>]
ChanOff == [id |-> << "4", "2" >>, name |-> << "O", "f", "f" >>]
ChanDm == [id |-> << "5", "1" >>, name |-> None]
ChanGroup == [id |-> << "6", "1" >>, name |-> << "p", "a", "l", "s" >>]

ChannelIds == { ChanGen.id, ChanOff.id, ChanDm.id, ChanGroup.id }

\* The n-th message of a run; its id is << n >> as a string.
MessageId(n) == << CASE n = 1 -> "1" [] n = 2 -> "2" [] n = 3 -> "3" [] n = 4 -> "4"
                     [] OTHER -> "5" >>

BaseMessage(n, channelType, guild, chan, author, mentionsBot, content) ==
  [ event |-> "message",
    id |-> << "m" >> \o MessageId(n), channelType |-> channelType, guild |-> guild,
    channelId |-> chan.id, channelName |-> chan.name, author |-> << author >>,
    displayName |-> None, mentionsBot |-> mentionsBot, content |-> content,
    attachment |-> << >>, embedDescription |-> None, snapshot |-> << >>,
    type |-> "Default", createdTimestamp |-> n ]

GuildMessage(n, guild, chan, author, mentionsBot, content) ==
  BaseMessage(n, "GuildText", << guild >>, chan, author, mentionsBot, content)
DirectMessage(n, author, content) ==
  BaseMessage(n, "DM", << >>, ChanDm, author, FALSE, content)
GroupDmMessage(n, author, mentionsBot, content) ==
  BaseMessage(n, "GroupDM", << >>, ChanGroup, author, mentionsBot, content)

\* A reaction of user on the n-th message, written by authorId in chan of
\* guild (<< >> outside a guild).
ReactionOn(n, action, user, guild, chan, authorId) ==
  [ event |-> "reaction", action |-> action, user |-> << user >>,
    message |-> [ id |-> << "m" >> \o MessageId(n), guild |-> guild, channelId |-> chan.id,
                  channelName |-> chan.name, authorId |-> authorId ] ]

\* The n-th event of a run as the slash command, used by user in chan.
SlashInteraction(n, user, channelType, guild, chan, options) ==
  [ event |-> "interaction", id |-> << "i" >> \o MessageId(n), isChatInputCommand |-> TRUE,
    commandName |-> DefaultSlashName, user |-> user, channelType |-> channelType,
    inGuild |-> guild # << >>, guild |-> guild, channelId |-> chan.id,
    channelName |-> chan.name, options |-> options ]

Attachment(contentType) ==
  << [url |-> << "a", "1" >>, contentType |-> contentType] >>
ImagePng == << "i", "m", "a", "g", "e", "/", "p", "n", "g" >>

TextHi == << "h", "i" >>
TextYo == << "y", "o" >>

Url1 == << "u", "1" >>
Url2 == << "u", "2" >>

\* A reply payload of the generator.
Payload(text, mediaUrl, mediaUrls, replyToId) ==
  [text |-> text, mediaUrl |-> mediaUrl, mediaUrls |-> mediaUrls, replyToId |-> replyToId]

\* Sequences over S of length at most n
SeqsUpTo(S, n) == UNION { [1..k -> S] : k \in 0..n }

NoGuildEntry == [slug |-> None, requireMention |-> << >>, reactionNotifications |-> "unset",
                 users |-> << >>, channels |-> << >>]
NoChannelEntry == [allow |-> << >>, requireMention |-> << >>]

\* slashCommand: {} of the configuration: the command is enabled under its
\* default name.
NoSlashCommand == [enabled |-> << >>, name |-> None, sessionPrefix |-> None, ephemeral |-> << >>]

\* The configuration with nothing set but the limits and an empty
\* slashCommand section.
BaseCfg ==
  [ dmEnabled |-> TRUE, groupDmEnabled |-> FALSE, allowFrom |-> << >>,
    groupDmChannels |-> << >>, guildEntries |-> << >>,
    optHistoryLimit |-> << >>, discordHistoryLimit |-> << 2 >>,
    optReplyToMode |-> "unset", discordReplyToMode |-> "unset",
    textLimit |-> 2, slashCommand |-> << NoSlashCommand >> ]

\* Collaborators that never fail and a generator that returns one short text.
BaseWorld ==
  [ blockPayloads |-> { Payload(TextHi, None, << >>, << "m", "1" >>) },
    maxBlocks |-> 1,
    results |-> { << >>, << Payload(TextHi, None, << >>, << "m", "1" >>) >> },
    mayThrow |-> TRUE,
    sendMayFail |-> TRUE,
    fetchFailures |-> { "http-404", "too-large" } ]

TypeOK ==
  /\ DOMAIN guildHistories = ChannelIds
  /\ DOMAIN appended = ChannelIds
  /\ \A t \in DOMAIN turns :
       turns[t].pc \in {"media", "route", "gen", "chain", "deliver", "done"}

\* The state after monitorDiscordProvider has logged in, for a configuration,
\* collaborators and a sequence of inbound messages.
\* A reaction on a message of the bot and a use of the slash command.
SideInbox ==
  << ReactionOn(1, "added", UserAl, << GuildDev >>, ChanGen, botId),
     SlashInteraction(2, UserAl, "GuildText", << GuildDev >>, ChanGen, << TextHi >>) >>

\* monitorDiscordProvider awaiting its promise after the login, called
\* without an abort signal, on a client that emits no error.
Running ==
  [ phase |-> "waiting", signal |-> "none", abortListener |-> FALSE, errorListener |-> TRUE,
    connected |-> TRUE, mayError |-> FALSE ]

\* monitorDiscordProvider awaiting client.login, called with an abort signal
\* that is not raised yet, on a client that may emit an error.
Starting ==
  [ phase |-> "login", signal |-> "idle", abortListener |-> FALSE, errorListener |-> FALSE,
    connected |-> FALSE, mayError |-> TRUE ]

\* No cron payload is being migrated; the command is not run.
NoJob == << >>
NoCli == << >>

\* Every scenario also has the run of SideInbox, which starts before the
\* login, with an abort signal.
InitWith(configs, worlds, inboxes) ==
  /\ cfg \in configs
  /\ world \in worlds
  /\ inbox \in inboxes \cup { SideInbox }
  /\ monitor = IF inbox = SideInbox THEN Starting ELSE Running
  /\ job = NoJob
  /\ cli = NoCli
  /\ turns = << >>
  /\ guildHistories = [c \in ChannelIds |-> << >>]
  /\ lastRoute = << >>
  /\ systemEvents = << >>
  /\ outbox = << >>
  /\ appended = [c \in ChannelIds |-> << >>]
  /\ slashTurns = << >>

\* ------------------------------------------------------------------------
\* Actions
\* ------------------------------------------------------------------------
\* Admitted without the system-event branch.
AdmittedAsTurn(turn, histories) ==
  IF turn.msg.attachment # << >> THEN [turn EXCEPT !.pc = "media"]
  ELSE AfterMedia(turn, << >>, histories)

\* client.on(Events.MessageCreate): the handler up to its first suspension.
\* The handler of message m after its early returns: a system event is
\* enqueued; a message with an attachment awaits the download; any other goes
\* on as after resolveMedia returned null.
Admitted(turn, histories) ==
  IF resolveDiscordSystemEvent(turn.msg) THEN [turn EXCEPT !.outcome = "system-event"]
  ELSE IF turn.msg.attachment # << >> THEN [turn EXCEPT !.pc = "media"]
  ELSE AfterMedia(turn, << >>, histories)

\* The turn of message m at its first suspension, dropped for reason early
\* before the history append or for reason late after it.
FirstStep(turn, early, late, histories) ==
  IF early # "" THEN [turn EXCEPT !.outcome = early]
  ELSE IF late # "" THEN [turn EXCEPT !.outcome = late]
  ELSE Admitted(turn, histories)

\* The history store after the append of the handler (lines 284-294), when
\* the message passed the early returns and records history.
AfterPush(m, pushes) ==
  IF pushes
  THEN [guildHistories EXCEPT ![m.channelId] = PushHistory(@, HistoryEntry(m), historyLimit)]
  ELSE guildHistories

\* enqueueSystemEvent(systemText, {contextKey: discord:system:<channel>:<id>})
SystemEventOf(m) ==
  [ kind |-> "system", action |-> m.type, channelId |-> m.channelId, id |-> m.id,
    userId |-> m.author[1].id ]

Arrive(m, turn, pushes) ==
  /\ inbox' = Tail(inbox)
  /\ turns' = Append(turns, turn)
  /\ outbox' = Append(outbox, << >>)
  /\ guildHistories' = AfterPush(m, pushes)
  /\ appended' = IF pushes
                 THEN [appended EXCEPT ![m.channelId] = Append(@, HistoryEntry(m))]
                 ELSE appended
  /\ systemEvents' = IF turn.outcome = "system-event"
                     THEN Append(systemEvents, SystemEventOf(m))
                     ELSE systemEvents

HandleMessage(m, early, pushes) ==
  Arrive(m,
         FirstStep([NewTurn(m) EXCEPT !.historyPushed = pushes], early,
                   IF early = "" THEN LateDrop(m) ELSE "", AfterPush(m, pushes)),
         pushes)

MessageCreate ==
  /\ monitor.connected
  /\ inbox # << >>
  /\ Head(inbox).event = "message"
  /\ HandleMessage(Head(inbox), EarlyDrop(Head(inbox)),
                   EarlyDrop(Head(inbox)) = "" /\ RecordsHistory(Head(inbox)))
  /\ UNCHANGED << monitor, job, cli, slashTurns, cfg, world, lastRoute >>

\* The DiscordMediaInfo resolveMedia returns for an attachment.
SavedMedia(attachment) ==
  << [path |-> attachment.url, contentType |-> attachment.contentType,
      placeholder |-> inferPlaceholder(attachment)] >>

\* resolveMedia returns: the attachment was downloaded and saved.
ResolveMediaOk(t) ==
  /\ turns[t].pc = "media"
  /\ turns' = [turns EXCEPT ![t] = AfterMedia(@, SavedMedia(@.msg.attachment[1]), guildHistories)]
  /\ UNCHANGED << monitor, job, cli, slashTurns, cfg, world, inbox, guildHistories, lastRoute, systemEvents, outbox, appended >>

\* resolveMedia throws (the download answers non-2xx, or saveMediaBuffer
\* rejects the size): the handler's catch logs the error.
ResolveMediaFail(t) ==
  /\ turns[t].pc = "media"
  /\ \E why \in world.fetchFailures :
       turns' = [turns EXCEPT ![t].pc = "done", ![t].outcome = why]
  /\ UNCHANGED << monitor, job, cli, slashTurns, cfg, world, inbox, guildHistories, lastRoute, systemEvents, outbox, appended >>

\* await updateLastRoute(...) of a direct message, then getReplyFromConfig is
\* called.
UpdateLastRoute(t) ==
  /\ turns[t].pc = "route"
  /\ lastRoute' = << [channel |-> "discord",
                       to |-> << "u", "s", "e", "r", ":" >> \o turns[t].msg.author[1].id] >>
  /\ turns' = [turns EXCEPT ![t].pc = "gen", ![t].genCalled = TRUE]
  /\ UNCHANGED << monitor, job, cli, slashTurns, cfg, world, inbox, guildHistories, systemEvents, outbox, appended >>

\* The reply generator calls onBlockReply(payload): sendBlockReply.
GenBlockReply(t) ==
  /\ turns[t].pc = "gen"
  /\ turns[t].blocks < world.maxBlocks
  /\ \E payload \in world.blockPayloads :
       turns' = [turns EXCEPT ![t] =
                   IF BlockReplyIsEmpty(payload) THEN [@ EXCEPT !.blocks = @ + 1]
                   ELSE Pump([@ EXCEPT !.blocks = @ + 1,
                                       !.blockSendChain = Append(@, payload)])]
  /\ UNCHANGED << monitor, job, cli, slashTurns, cfg, world, inbox, guildHistories, lastRoute, systemEvents, outbox, appended >>

\* getReplyFromConfig returns its result (null, one payload or a list); the
\* handler awaits blockSendChain.
GenReturn(t) ==
  /\ turns[t].pc = "gen"
  /\ \E replies \in world.results :
       turns' = [turns EXCEPT ![t] = AfterChain([@ EXCEPT !.pc = "chain", !.replies = replies])]
  /\ guildHistories' = HistoriesAfter(turns[t], turns'[t], guildHistories)
  /\ UNCHANGED << monitor, job, cli, slashTurns, cfg, world, inbox, lastRoute, systemEvents, outbox, appended >>

\* GenThrow with the handler calling the generator again.
GenThrowRetries(t) ==
  /\ turns[t].pc = "gen"
  /\ world.mayThrow
  /\ turns' = [turns EXCEPT ![t].outcome = "generation-failed"]
  /\ UNCHANGED << monitor, job, cli, slashTurns, cfg, world, inbox, guildHistories, lastRoute, systemEvents, outbox, appended >>

\* GenThrow with the error ending the listener: the monitor rejects and the
\* client is disconnected.
GenThrowStopsListener(t) ==
  /\ turns[t].pc = "gen"
  /\ world.mayThrow
  /\ turns' = [turns EXCEPT ![t].pc = "done", ![t].outcome = "generation-failed"]
  /\ monitor' = [monitor EXCEPT !.phase = "rejected", !.connected = FALSE]
  /\ UNCHANGED << job, cli, slashTurns, cfg, world, inbox, guildHistories, lastRoute, systemEvents, outbox, appended >>

\* getReplyFromConfig throws: the handler's catch logs the error.  Links of
\* blockSendChain already queued are not awaited.
GenThrow(t) ==
  /\ turns[t].pc = "gen"
  /\ world.mayThrow
  /\ turns' = [turns EXCEPT ![t].pc = "done", ![t].outcome = "generation-failed"]
  /\ UNCHANGED << monitor, job, cli, slashTurns, cfg, world, inbox, guildHistories, lastRoute, systemEvents, outbox, appended >>

\* The record of one sendMessageDiscord call of a turn.
SendRecordOf(t, turn, call, send, ok) ==
  [ turn |-> t, kind |-> call.kind, call |-> call.no, payload |-> send.payload,
    text |-> send.text, mediaUrl |-> send.mediaUrl, replyToId |-> send.replyToId,
    replyTo |-> resolveDiscordReplyTarget(replyToMode, send.replyToId, call.hasReplied),
    ok |-> ok, handlerDone |-> turn.pc = "done" ]

SendRecord(t, turn, ok) ==
  SendRecordOf(t, turn, turn.call[1], turn.call[1].plan[turn.call[1].next], ok)

\* The turn after its send in flight was delivered: hasReplied is set when
\* the send carried a reply reference; the call goes on with its next send
\* or returns.  A block call that returns sets didSendReply and the chain
\* goes on; the final call that returns sets didSendReply and the handler
\* clears the history.
AfterSendOk(turn, replyTo) ==
  IF turn.call[1].next < Len(turn.call[1].plan)
  THEN [turn EXCEPT !.call[1].next = @ + 1,
                    !.call[1].hasReplied = @ \/ replyTo # None]
  ELSE IF turn.call[1].kind = "block"
  THEN AfterChain(Pump([turn EXCEPT !.didSendReply = TRUE, !.call = << >>]))
  ELSE Delivered(turn)

\* AfterSendFail with a failed block delivery ending the promise chain.
AfterSendFailStops(turn) ==
  IF turn.call[1].kind = "block" THEN [turn EXCEPT !.call = << >>]
  ELSE [turn EXCEPT !.call = << >>, !.pc = "done", !.outcome = "delivery-failed"]

\* The turn after its send in flight failed: deliverReplies throws.  The
\* catch of the chain link logs a block failure and the chain goes on; a
\* failure of the final call lands in the handler's catch.
AfterSendFail(turn) ==
  IF turn.call[1].kind = "block" THEN AfterChain(Pump([turn EXCEPT !.call = << >>]))
  ELSE [turn EXCEPT !.call = << >>, !.pc = "done", !.outcome = "delivery-failed"]

\* sendMessageDiscord resolves.
SendOk(t) ==
  /\ turns[t].call # << >>
  /\ turns' = [turns EXCEPT ![t] = AfterSendOk(@, SendRecord(t, @, TRUE).replyTo)]
  /\ guildHistories' = HistoriesAfter(turns[t], turns'[t], guildHistories)
  /\ outbox' = [outbox EXCEPT ![t] = Append(@, SendRecord(t, turns[t], TRUE))]
  /\ UNCHANGED << monitor, job, cli, slashTurns, cfg, world, inbox, lastRoute, systemEvents, appended >>

\* sendMessageDiscord rejects.
SendFail(t) ==
  /\ turns[t].call # << >>
  /\ world.sendMayFail
  /\ turns' = [turns EXCEPT ![t] = AfterSendFail(@)]
  /\ guildHistories' = HistoriesAfter(turns[t], turns'[t], guildHistories)
  /\ outbox' = [outbox EXCEPT ![t] = Append(@, SendRecord(t, turns[t], FALSE))]
  /\ UNCHANGED << monitor, job, cli, slashTurns, cfg, world, inbox, lastRoute, systemEvents, appended >>

\* client.on(Events.MessageReactionAdd / MessageReactionRemove):
\* handleReactionEvent with the action "added" or "removed".
MessageReaction ==
  /\ monitor.connected
  /\ inbox # << >>
  /\ Head(inbox).event = "reaction"
  /\ inbox' = Tail(inbox)
  /\ systemEvents' = IF ReactionDrop(Head(inbox)) = ""
                     THEN Append(systemEvents, ReactionEventOf(Head(inbox)))
                     ELSE systemEvents
  /\ UNCHANGED << monitor, job, cli, slashTurns, cfg, world, turns, guildHistories, lastRoute, outbox, appended >>

\* client.on(Events.InteractionCreate): the handler up to its first
\* suspension.
InteractionCreate ==
  /\ monitor.connected
  /\ inbox # << >>
  /\ Head(inbox).event = "interaction"
  /\ inbox' = Tail(inbox)
  /\ slashTurns' = Append(slashTurns,
                          SlashFirstStep(NewSlashTurn(Head(inbox)), SlashDrop(Head(inbox)),
                                         resolveSlashPrompt(Head(inbox).options)))
  /\ UNCHANGED << monitor, job, cli, cfg, world, turns, guildHistories, lastRoute, systemEvents, outbox, appended >>

\* The record of one settled call of the interaction API.
ResponseOf(call, ok) ==
  [api |-> call.api, content |-> call.content, ephemeral |-> call.ephemeral, ok |-> ok]

\* interaction.reply, deferReply, editReply or followUp resolves.
InteractionResponseOk(s) ==
  /\ slashTurns[s].pending # << >>
  /\ slashTurns' = [slashTurns EXCEPT ![s] =
                      SlashAfterOk([@ EXCEPT !.responses =
                                      Append(@, ResponseOf(slashTurns[s].pending[1], TRUE))])]
  /\ UNCHANGED << monitor, job, cli, cfg, world, inbox, turns, guildHistories, lastRoute, systemEvents, outbox,
                  appended >>

\* interaction.reply, deferReply, editReply or followUp rejects.
InteractionResponseFail(s) ==
  /\ slashTurns[s].pending # << >>
  /\ world.sendMayFail
  /\ slashTurns' = [slashTurns EXCEPT ![s] =
                      SlashAfterFail([@ EXCEPT !.responses =
                                        Append(@, ResponseOf(slashTurns[s].pending[1], FALSE))])]
  /\ UNCHANGED << monitor, job, cli, cfg, world, inbox, turns, guildHistories, lastRoute, systemEvents, outbox,
                  appended >>

\* getReplyFromConfig of the slash command returns: deliverSlashReplies.
SlashGenReturn(s) ==
  /\ slashTurns[s].pc = "gen"
  /\ \E replies \in world.results :
       slashTurns' = [slashTurns EXCEPT ![s] =
                        SlashDeliver(@, SlashMessages(replies, chunkLimit))]
  /\ UNCHANGED << monitor, job, cli, cfg, world, inbox, turns, guildHistories, lastRoute, systemEvents, outbox,
                  appended >>

\* getReplyFromConfig of the slash command throws: the catch of the handler.
SlashGenThrow(s) ==
  /\ slashTurns[s].pc = "gen"
  /\ world.mayThrow
  /\ slashTurns' = [slashTurns EXCEPT ![s] = SlashCatch(@, "generation-failed")]
  /\ UNCHANGED << monitor, job, cli, cfg, world, inbox, turns, guildHistories, lastRoute, systemEvents, outbox,
                  appended >>

\* client.login(token) resolves: the promise of the monitor is created, the
\* abort listener (when a signal was given) and the error listener are added.
\* A listener added to a signal that is already raised is never called.
LoginOk ==
  /\ monitor.phase = "login"
  /\ monitor' = [monitor EXCEPT !.phase = "waiting", !.connected = TRUE,
                                !.abortListener = monitor.signal # "none",
                                !.errorListener = TRUE]
  /\ UNCHANGED << job, cli, slashTurns, cfg, world, inbox, turns, guildHistories, lastRoute,
                  systemEvents, outbox, appended >>

\* client.login(token) rejects: so does monitorDiscordProvider.
LoginFail ==
  /\ monitor.phase = "login"
  /\ monitor' = [monitor EXCEPT !.phase = "rejected"]
  /\ UNCHANGED << job, cli, slashTurns, cfg, world, inbox, turns, guildHistories, lastRoute,
                  systemEvents, outbox, appended >>

\* onAbort: cleanup(), client.destroy(), resolve().
onAbort(m) ==
  [m EXCEPT !.abortListener = FALSE, !.errorListener = FALSE, !.connected = FALSE,
            !.phase = "resolved"]

\* The abort signal is raised: its listeners are called, once.
Abort ==
  /\ monitor.signal = "idle"
  /\ monitor' = IF monitor.abortListener THEN onAbort([monitor EXCEPT !.signal = "aborted"])
                ELSE [monitor EXCEPT !.signal = "aborted"]
  /\ UNCHANGED << job, cli, slashTurns, cfg, world, inbox, turns, guildHistories, lastRoute,
                  systemEvents, outbox, appended >>

\* The client emits Events.Error while the promise is pending: onError runs
\* cleanup() and rejects.  The client is not destroyed.
ClientError ==
  /\ monitor.mayError
  /\ monitor.connected
  /\ monitor.errorListener
  /\ monitor.phase = "waiting"
  /\ monitor' = [monitor EXCEPT !.abortListener = FALSE, !.errorListener = FALSE,
                                !.phase = "rejected"]
  /\ UNCHANGED << job, cli, slashTurns, cfg, world, inbox, turns, guildHistories, lastRoute,
                  systemEvents, outbox, appended >>

Next ==
  \/ LoginOk
  \/ LoginFail
  \/ Abort
  \/ ClientError
  \/ MessageCreate
  \/ \E t \in DOMAIN turns : ResolveMediaOk(t)
  \/ \E t \in DOMAIN turns : ResolveMediaFail(t)
  \/ \E t \in DOMAIN turns : UpdateLastRoute(t)
  \/ \E t \in DOMAIN turns : GenBlockReply(t)
  \/ \E t \in DOMAIN turns : GenReturn(t)
  \/ \E t \in DOMAIN turns : GenThrow(t)
  \/ \E t \in DOMAIN turns : SendOk(t)
  \/ \E t \in DOMAIN turns : SendFail(t)
  \/ MessageReaction
  \/ InteractionCreate
  \/ \E s \in DOMAIN slashTurns : InteractionResponseOk(s)
  \/ \E s \in DOMAIN slashTurns : InteractionResponseFail(s)
  \/ \E s \in DOMAIN slashTurns : SlashGenReturn(s)
  \/ \E s \in DOMAIN slashTurns : SlashGenThrow(s)

\* One guild message with an attachment and one direct message, under every
\* history limit and reply-to mode.
Init ==
  InitWith(
    { [BaseCfg EXCEPT !.discordHistoryLimit = << h >>, !.discordReplyToMode = r] :
        h \in 0..MaxHistoryLimit, r \in {"unset", "off", "first", "all"} },
    { BaseWorld },
    { << [GuildMessage(1, GuildDev, ChanGen, UserAl, TRUE, TextHi)
            EXCEPT !.attachment = Attachment(ImagePng)],
         DirectMessage(2, UserBo, TextYo) >> })

Spec == Init /\ [][Next]_vars

\* ------------------------------------------------------------------------
\* History scenario: MaxMsgs messages over two guild channels and a direct
\* chat, under every history limit up to MaxHistoryLimit.
\* ------------------------------------------------------------------------
HistoryMessages(n) ==
  { GuildMessage(n, GuildDev, ChanGen, UserAl, TRUE, TextHi),
    GuildMessage(n, GuildDev, ChanGen, UserBo, FALSE, TextYo),
    [GuildMessage(n, GuildDev, ChanOff, UserAl, TRUE, TextYo)
       EXCEPT !.attachment = Attachment(ImagePng)] }
    \cup (IF n = MaxMsgs THEN { DirectMessage(n, UserBo, TextYo) } ELSE {})

HistoryInboxes ==
  { inb \in [1..MaxMsgs -> UNION { HistoryMessages(n) : n \in 1..MaxMsgs }] :
      \A n \in 1..MaxMsgs : inb[n] \in HistoryMessages(n) }

HistoryWorld ==
  [ blockPayloads |-> { Payload(TextHi, None, << >>, None) },
    maxBlocks |-> 1,
    results |-> { << Payload(TextYo, None, << >>, None) >> },
    mayThrow |-> TRUE,
    sendMayFail |-> TRUE,
    fetchFailures |-> { "http-404" } ]

InitHistory ==
  InitWith({ [BaseCfg EXCEPT !.discordHistoryLimit = << h >>] : h \in 0..MaxHistoryLimit },
           { HistoryWorld }, HistoryInboxes)

SpecHistory == InitHistory /\ [][Next]_vars

\* ------------------------------------------------------------------------
\* Delivery scenario: one turn (a guild message, with or without an
\* attachment, or a direct message) whose generator streams up to MaxBlocks
\* block replies and returns up to MaxReplies payloads, under every reply-to
\* mode.
\* ------------------------------------------------------------------------
MsgId1 == << "m" >> \o MessageId(1)

\* One chunk, two chunks, two chunks without a reply reference, two media,
\* and a payload without text and media.
TurnPayloads ==
  { Payload(TextHi, None, << >>, MsgId1),
    Payload(TextHi \o TextYo, None, << >>, MsgId1),
    Payload(TextYo \o TextHi, None, << >>, None),
    Payload(TextYo, None, << << Url1, Url2 >> >>, MsgId1),
    Payload(<< >>, None, << >>, MsgId1) }

TurnWorld ==
  [ blockPayloads |-> TurnPayloads,
    maxBlocks |-> MaxBlocks,
    results |-> SeqsUpTo(TurnPayloads, MaxReplies),
    mayThrow |-> TRUE,
    sendMayFail |-> TRUE,
    fetchFailures |-> { "http-404" } ]

TurnInboxes ==
  { << GuildMessage(1, GuildDev, ChanGen, UserAl, TRUE, TextHi) >>,
    << [GuildMessage(1, GuildDev, ChanGen, UserAl, TRUE, None)
          EXCEPT !.attachment = Attachment(ImagePng)] >>,
    << DirectMessage(1, UserBo, TextYo) >> }

InitTurn ==
  InitWith({ [BaseCfg EXCEPT !.discordHistoryLimit = << h >>, !.optReplyToMode = r] :
               h \in {0, MaxHistoryLimit}, r \in {"off", "first", "all"} },
           { TurnWorld }, TurnInboxes)

SpecTurn == InitTurn /\ [][Next]_vars

\* ------------------------------------------------------------------------
\* Policy scenario: one message (guild channel, group DM or direct chat, the
\* bot mentioned or not) under every combination of a dm.allowFrom list and a
\* guild entry with requireMention set or unset at guild and channel level.
\* ------------------------------------------------------------------------
OptBool == { << >>, << TRUE >>, << FALSE >> }

PolicyChannels ==
  { << >> } \cup
  { << [key |-> ChanGen.name, entry |-> [NoChannelEntry EXCEPT !.requireMention = r]] >> :
      r \in OptBool }

PolicyGuildEntries ==
  { << >> } \cup
  { << [key |-> GuildDev.id,
        entry |-> [NoGuildEntry EXCEPT !.requireMention = r, !.channels = ch]] >> :
      r \in OptBool, ch \in PolicyChannels }

PolicyAllowFrom ==
  { << >>, << UserAl.id >>, << << "A", "L" >> >>, << << " ", " " >> >> }

PolicyInboxes ==
  { << GuildMessage(1, GuildDev, ChanGen, UserAl, mentioned, TextHi) >> :
      mentioned \in BOOLEAN } \cup
  { << GroupDmMessage(1, UserAl, mentioned, TextHi) >> : mentioned \in BOOLEAN } \cup
  { << DirectMessage(1, author, TextYo) >> : author \in { UserAl, UserBo } } \cup
  { << [GuildMessage(1, GuildDev, ChanGen, UserBo, TRUE, TextYo)
          EXCEPT !.attachment = Attachment(ImagePng)] >> }

InitPolicy ==
  InitWith({ [BaseCfg EXCEPT !.groupDmEnabled = TRUE, !.allowFrom = a, !.guildEntries = g] :
               a \in PolicyAllowFrom, g \in PolicyGuildEntries },
           { HistoryWorld }, PolicyInboxes)

SpecPolicy == InitPolicy /\ [][Next]_vars

\* ------------------------------------------------------------------------
\* Payload scenario: one turn whose generator returns up to MaxReplies
\* payloads among a text of three chunks, a media URL without text, two media
\* URLs with a caption, a media URL with a caption longer than the text
\* limit, and a payload without text and media.
\* ------------------------------------------------------------------------
TextHiYoH == TextHi \o TextYo \o << "h" >>

DeliverPayloads ==
  { Payload(TextHiYoH, None, << >>, None),
    Payload(<< >>, Url1, << >>, None),
    Payload(TextYo, None, << << Url1, Url2 >> >>, None),
    Payload(TextHiYoH, Url2, << >>, None),
    Payload(<< >>, None, << >>, None) }

DeliverWorld ==
  [ blockPayloads |-> { Payload(TextHi, None, << >>, None) },
    maxBlocks |-> 1,
    results |-> SeqsUpTo(DeliverPayloads, MaxReplies),
    mayThrow |-> TRUE,
    sendMayFail |-> TRUE,
    fetchFailures |-> { "http-404" } ]

InitDeliver == InitWith({ BaseCfg }, { DeliverWorld }, TurnInboxes)

SpecDeliver == InitDeliver /\ [][Next]_vars

\* ------------------------------------------------------------------------
\* Allow-list scenario: one message (a direct message of one of four senders,
\* or a guild message with an attachment) under every dm.allowFrom list of
\* one or two raw entries: the wildcard bare, padded and behind a prefix, ids
\* bare, as a mention and behind a prefix, names with a sigil, in another
\* case, with a space, made of punctuation only, and a blank entry.
\* ------------------------------------------------------------------------
MaxEntries == 2

UserAB == [id |-> << "6" >>, username |-> << "a", "_", "B" >>, tag |-> None, bot |-> FALSE]
UserBang == [id |-> << "3" >>, username |-> << " ", "!", "!" >>, tag |-> << >>, bot |-> FALSE]

AllowEntries ==
  { << "*" >>, << " ", "*", " " >>, << "u", "s", "e", "r", ":", "*" >>,
    << "7" >>, << "<", "@", "!", "8", ">" >>, << "D", "i", "s", "c", "o", "r", "d", ":", "6" >>,
    << "@", "a", "l" >>, << "B", "O", "#", "2" >>, << "a", " ", "b" >>, << "!", "!" >>,
    << " ", " " >> }

AllowRawLists == SeqsUpTo(AllowEntries, MaxEntries) \ { << >> }

AllowSenders == { UserAl, UserBo, UserAB, UserBang }

AllowInboxes ==
  { << DirectMessage(1, author, TextYo) >> : author \in AllowSenders } \cup
  { << [GuildMessage(1, GuildDev, ChanGen, UserBo, TRUE, TextYo)
          EXCEPT !.attachment = Attachment(ImagePng)] >> }

InitAllow ==
  InitWith({ [BaseCfg EXCEPT !.allowFrom = a] : a \in AllowRawLists },
           { HistoryWorld }, AllowInboxes)

SpecAllow == InitAllow /\ [][Next]_vars

\* ------------------------------------------------------------------------
\* Guild scenario: a message, a reaction and a use of the slash command, all
\* three in one of two guilds, under every discord.guilds map of at most
\* MaxGuildKeys of five keys (the id of the first guild, its slug, its name
\* in capitals, "*", and an unrelated key whose entry names the guild in its
\* slug field) and every one of four channels maps.
\* ------------------------------------------------------------------------
MaxGuildKeys == 2

KeyDevUpper == << "D", "E", "V" >>
KeyOther == << "x" >>
KeyStar == << "*" >>

GuildKeys == { GuildDev.id, normalizeDiscordSlug(GuildDev.name), KeyDevUpper, KeyStar, KeyOther }

GuildChannelMaps ==
  { << >>,
    << [key |-> KeyStar, entry |-> NoChannelEntry] >>,
    << [key |-> ChanGen.id, entry |-> NoChannelEntry] >>,
    << [key |-> ChanOff.id, entry |-> NoChannelEntry],
       [key |-> KeyStar, entry |-> NoChannelEntry] >> }

\* The entry under key: the unrelated key names the first guild in its slug.
GuildEntryUnder(key, channels) ==
  [ key |-> key,
    entry |-> [NoGuildEntry EXCEPT !.slug = IF key = KeyOther THEN GuildDev.name ELSE None,
                                   !.channels = channels] ]

GuildMaps ==
  { << >> } \cup
  { [i \in DOMAIN keys |-> GuildEntryUnder(keys[i], ch)] :
      keys \in { ks \in SeqsUpTo(GuildKeys, MaxGuildKeys) :
                   ks # << >> /\ \A i, j \in DOMAIN ks : i # j => ks[i] # ks[j] },
      ch \in GuildChannelMaps }

GuildEvents(guild) ==
  << GuildMessage(1, guild, ChanGen, UserAl, TRUE, TextHi),
     ReactionOn(2, "added", UserAl, << guild >>, ChanGen, botId),
     SlashInteraction(3, UserAl, "GuildText", << guild >>, ChanGen, << TextHi >>) >>

GuildInboxes ==
  { GuildEvents(GuildDev), GuildEvents(GuildOps),
    << [GuildMessage(1, GuildDev, ChanGen, UserBo, TRUE, TextYo)
          EXCEPT !.attachment = Attachment(ImagePng)] >>,
    << DirectMessage(1, UserBo, TextYo) >> }

InitGuild ==
  InitWith({ [BaseCfg EXCEPT !.guildEntries = g] : g \in GuildMaps }, { HistoryWorld },
           GuildInboxes)

SpecGuild == InitGuild /\ [][Next]_vars

\* ------------------------------------------------------------------------
\* Chat-type scenario: under every setting of dm.enabled and dm.groupEnabled
\* and a dm.allowFrom that is absent or names one other user,
\* a message and then a use of the slash command in a direct chat or in a
\* group DM, a system message (a pin in a guild, with or without a mention
\* of the bot, a join in a direct chat, an added recipient in a group DM),
\* or a guild message with an attachment.
\* ------------------------------------------------------------------------
SystemMessage(m, type) == [m EXCEPT !.type = type]

ChatTypeInboxes ==
  { << DirectMessage(1, UserAl, TextHi), SlashInteraction(2, UserAl, "DM", << >>, ChanDm, << TextHi >>) >>,
    << GroupDmMessage(1, UserAl, TRUE, TextHi),
       SlashInteraction(2, UserAl, "GroupDM", << >>, ChanGroup, << TextHi >>) >>,
    << SystemMessage(DirectMessage(1, UserAl, None), "UserJoin") >>,
    << SystemMessage(GroupDmMessage(1, UserAl, FALSE, None), "RecipientAdd") >>,
    << [GuildMessage(1, GuildDev, ChanGen, UserBo, TRUE, TextYo)
          EXCEPT !.attachment = Attachment(ImagePng)] >> } \cup
  { << SystemMessage(GuildMessage(1, GuildDev, ChanGen, UserAl, mentioned, TextHi),
                     "ChannelPinnedMessage") >> : mentioned \in BOOLEAN }

InitChatType ==
  InitWith({ [BaseCfg EXCEPT !.dmEnabled = dm, !.groupDmEnabled = group, !.allowFrom = a] :
               dm \in BOOLEAN, group \in BOOLEAN, a \in { << >>, << UserBo.id >> } },
           { HistoryWorld }, ChatTypeInboxes)

SpecChatType == InitChatType /\ [][Next]_vars

\* ------------------------------------------------------------------------
\* Reaction scenario: one reaction, added or removed, by one of four users
\* (two members, another bot, the bot itself) on a message of the bot, of a
\* member or of an unknown author, in a guild or in a direct chat, under no
\* discord.guilds or one entry for the guild with every reaction mode and a
\* users list that is absent, names one member, or is blank.
\* ------------------------------------------------------------------------
UserSelf == [id |-> botId, username |-> << "c", "l", "a", "w" >>, tag |-> None, bot |-> FALSE]

ReactionModes == { "unset", "off", "own", "all", "allowlist" }

ReactionUserLists == { << >>, << UserAl.id >>, << << " ", " " >> >> }

ReactionGuildMaps ==
  { << >> } \cup
  { << [key |-> GuildDev.id,
        entry |-> [NoGuildEntry EXCEPT !.reactionNotifications = mode, !.users = users]] >> :
      mode \in ReactionModes, users \in ReactionUserLists }

ReactionInboxes ==
  { << ReactionOn(1, action, user, guild, ChanGen, authorId) >> :
      action \in { "added", "removed" },
      user \in { UserAl, UserBo, UserBot, UserSelf },
      guild \in { << >>, << GuildDev >> },
      authorId \in { botId, UserBo.id, None } } \cup
  { << [GuildMessage(1, GuildDev, ChanGen, UserAl, TRUE, TextYo)
          EXCEPT !.attachment = Attachment(ImagePng)] >>,
    << DirectMessage(1, UserBo, TextYo) >> }

InitReaction ==
  InitWith({ [BaseCfg EXCEPT !.guildEntries = g] : g \in ReactionGuildMaps },
           { HistoryWorld }, ReactionInboxes)

SpecReaction == InitReaction /\ [][Next]_vars

\* ------------------------------------------------------------------------
\* Route scenario: two direct messages of two senders, the first with or
\* without an attachment; or a direct message after a guild message.
\* ------------------------------------------------------------------------
RouteInboxes ==
  { << [DirectMessage(1, UserAl, TextHi) EXCEPT !.attachment = Attachment(ImagePng)],
       DirectMessage(2, UserBo, TextYo) >>,
    << DirectMessage(1, UserAl, TextHi), DirectMessage(2, UserBo, TextYo) >>,
    << GuildMessage(1, GuildDev, ChanGen, UserAl, TRUE, TextHi),
       DirectMessage(2, UserBo, TextYo) >> }

RouteWorld ==
  [ blockPayloads |-> { Payload(TextHi, None, << >>, None) },
    maxBlocks |-> 1,
    results |-> { << >>, << Payload(TextYo, None, << >>, None) >> },
    mayThrow |-> TRUE,
    sendMayFail |-> TRUE,
    fetchFailures |-> { "http-404" } ]

InitRoute == InitWith({ BaseCfg }, { RouteWorld }, RouteInboxes)

SpecRoute == InitRoute /\ [][Next]_vars


\* ------------------------------------------------------------------------
\* Text scenario: one message with an attachment, in a guild channel or a
\* direct chat, under every shape of its content (absent, empty, blank, a
\* text) and every kind of attachment.
\* ------------------------------------------------------------------------
TextContents == { None, << >>, << " " >>, TextHi }

AttachmentTypes ==
  { None, ImagePng, << "v", "i", "d", "e", "o", "/", "m", "p", "4" >>,
    << "a", "u", "d", "i", "o", "/", "o", "g", "g" >>,
    << "a", "p", "p", "l", "i", "c", "a", "t", "i", "o", "n", "/", "p", "d", "f" >> }

TextInboxes ==
  { << [m EXCEPT !.attachment = Attachment(a)] >> :
      m \in { GuildMessage(1, GuildDev, ChanGen, UserAl, TRUE, c) : c \in TextContents }
            \cup { DirectMessage(1, UserBo, c) : c \in TextContents },
      a \in AttachmentTypes }

InitText == InitWith({ BaseCfg }, { BaseWorld }, TextInboxes)

SpecText == InitText /\ [][Next]_vars


\* ------------------------------------------------------------------------
\* Gate scenario: one guild message that mentions the bot, from either user,
\* under guild entries that configure the guild or another one, with or
\* without a users allow-list and a channel map.
\* ------------------------------------------------------------------------
GateUserLists == { << >>, << UserAl.id >>, << UserBo.id >> }

GateChannelMaps ==
  { << >>,
    << [key |-> ChanGen.id, entry |-> [NoChannelEntry EXCEPT !.allow = << TRUE >>]] >>,
    << [key |-> ChanGen.id, entry |-> [NoChannelEntry EXCEPT !.allow = << FALSE >>]] >>,
    << [key |-> ChanOff.id, entry |-> NoChannelEntry] >> }

GateGuildMaps ==
  { << >>, << [key |-> GuildOps.id, entry |-> NoGuildEntry] >> } \cup
  { << [key |-> GuildDev.id, entry |-> [NoGuildEntry EXCEPT !.users = u, !.channels = ch]] >> :
      u \in GateUserLists, ch \in GateChannelMaps }

GateInboxes ==
  { << GuildMessage(1, GuildDev, ChanGen, author, TRUE, TextHi) >> :
      author \in { UserAl, UserBo } } \cup
  { << [GuildMessage(1, GuildDev, ChanGen, UserAl, TRUE, TextHi)
          EXCEPT !.attachment = Attachment(ImagePng)],
       DirectMessage(2, UserBo, TextYo) >> }

InitGate ==
  InitWith({ [BaseCfg EXCEPT !.guildEntries = g] : g \in GateGuildMaps },
           { HistoryWorld }, GateInboxes)

SpecGate == InitGate /\ [][Next]_vars


\* ------------------------------------------------------------------------
\* Slash scenario: up to MaxSlash uses of the slash command, in a guild
\* channel or a direct chat, with a prompt or without one, answered by a
\* generator that returns nothing, a text of two chunks or the silent token,
\* or throws.  Every call of the interaction API that is in flight settles,
\* and every call of the generator returns or throws.
\* ------------------------------------------------------------------------
MaxSlash == 2

SlashWorld ==
  [ blockPayloads |-> { Payload(TextHi, None, << >>, None) },
    maxBlocks |-> 1,
    results |-> { << >>, << Payload(TextHi \o TextYo, None, << >>, None) >>,
                  << Payload(SILENT_REPLY_TOKEN, None, << >>, None) >> },
    mayThrow |-> TRUE,
    sendMayFail |-> TRUE,
    fetchFailures |-> { "http-404" } ]

SlashUses(n) ==
  { SlashInteraction(n, UserAl, "GuildText", << GuildDev >>, ChanGen, options) :
      options \in { << TextHi >>, << >>, << << " " >>, TextYo >> } } \cup
  { SlashInteraction(n, UserBo, "DM", << >>, ChanDm, << TextHi >>) }

SlashInboxes ==
  { inb \in [1..MaxSlash -> UNION { SlashUses(n) : n \in 1..MaxSlash }] :
      \A n \in 1..MaxSlash : inb[n] \in SlashUses(n) } \cup
  { << [GuildMessage(1, GuildDev, ChanGen, UserAl, TRUE, TextHi)
          EXCEPT !.attachment = Attachment(ImagePng)],
       DirectMessage(2, UserBo, TextYo) >> }

InitSlash ==
  InitWith({ [BaseCfg EXCEPT !.dmEnabled = d] : d \in BOOLEAN }, { SlashWorld }, SlashInboxes)

SlashSettles(s) == InteractionResponseOk(s) \/ InteractionResponseFail(s)
SlashGenEnds(s) == SlashGenReturn(s) \/ SlashGenThrow(s)

SpecSlash ==
  /\ InitSlash
  /\ [][Next]_vars
  /\ WF_vars(\E s \in DOMAIN slashTurns : SlashSettles(s))
  /\ WF_vars(\E s \in DOMAIN slashTurns : SlashGenEnds(s))

\* ------------------------------------------------------------------------
\* Cron payload migration (src/cron/payload-migration.ts, src/cron/normalize.ts)
\* ------------------------------------------------------------------------
\* A JavaScript value held under a key of the payload record: the key is
\* absent, holds a string, or holds a value of another type.
JsAbsent == [type |-> "absent", text |-> << >>]
JsOther == [type |-> "other", text |-> << >>]
JsString(s) == [type |-> "string", text |-> s]

\* typeof value !== "string" ? undefined : value
readString(value) == IF value.type # "string" THEN JsAbsent ELSE value

normalizeProviderNoTrim(value) == ToLower(value)

\* value.trim().toLowerCase()
normalizeProvider(value) == ToLower(Trim(value))

\* typeof v === "string" && v.trim().length > 0
NonBlank(v) == v.type = "string" /\ Len(Trim(v.text)) > 0

\* The value of nextProvider, "" when neither key holds a non-blank string.
nextProvider(providerValue, channelValue) ==
  IF NonBlank(providerValue) THEN normalizeProvider(providerValue.text)
  ELSE IF NonBlank(channelValue) THEN normalizeProvider(channelValue.text)
  ELSE << >>

\* if (nextProvider) { if (providerValue !== nextProvider) payload.provider = nextProvider }
ProviderAssigned(payload) ==
  LET np == nextProvider(readString(payload.provider), readString(payload.channel))
  IN np # << >> /\ readString(payload.provider) # JsString(np)

\* migrateLegacyCronPayload(payload): the payload as the call leaves it and
\* the flag it returns.
migrateLegacyCronPayload(payload) ==
  LET np == nextProvider(readString(payload.provider), readString(payload.channel))
      withProvider ==
        IF ProviderAssigned(payload) THEN [payload EXCEPT !.provider = JsString(np)]
        ELSE payload
      hasChannel == payload.channel.type # "absent"
  IN [ payload |-> IF hasChannel THEN [withProvider EXCEPT !.channel = JsAbsent]
                   ELSE withProvider,
       mutated |-> ProviderAssigned(payload) \/ hasChannel ]

\* coercePayload up to the call of the migration: a copy of the payload whose
\* kind is inferred when it has none.
KindInferred(payload) ==
  IF payload.kind.type = "string" /\ payload.kind.text # << >> THEN payload
  ELSE IF payload.text.type = "string"
    THEN [payload EXCEPT !.kind = JsString(<< "systemEvent" >>)]
  ELSE IF payload.message.type = "string"
    THEN [payload EXCEPT !.kind = JsString(<< "agentTurn" >>)]
  ELSE payload

MaxCalls == 2
MaxProviderLen == 2
ProviderChars == { " ", "a", "A" }
ProviderValues ==
  { JsAbsent, JsOther } \cup { JsString(s) : s \in SeqsUpTo(ProviderChars, MaxProviderLen) }
KindValues == { JsAbsent, JsString(<< >>), JsString(<< "agentTurn" >>) }
BodyValues == { JsAbsent, JsString(<< "hi" >>) }
CronPayloads ==
  [ provider : ProviderValues, channel : ProviderValues, kind : KindValues,
    text : BodyValues, message : BodyValues ]

\* The record of the calls made on one payload: the payload as first given
\* and as it is now, the argument of the last migration call, the flags the
\* calls returned.
NewJob(p) == [ original |-> p, payload |-> p, before |-> p, flags |-> << >> ]

Called(j, arg) ==
  LET r == migrateLegacyCronPayload(arg)
  IN [ j EXCEPT !.payload = r.payload, !.before = arg, !.flags = Append(@, r.mutated) ]

\* A direct call of the exported migrateLegacyCronPayload on the payload.
MigrateCall ==
  /\ job # NoJob
  /\ Len(job.flags) < MaxCalls
  /\ job' = Called(job, job.payload)
  /\ UNCHANGED << monitor, cli, slashTurns, cfg, world, inbox, turns, guildHistories,
                  lastRoute, systemEvents, outbox, appended >>

\* normalizeCronJobInput: next.payload = coercePayload(base.payload)
CoerceCall ==
  /\ job # NoJob
  /\ Len(job.flags) < MaxCalls
  /\ job' = Called(job, KindInferred(job.payload))
  /\ UNCHANGED << monitor, cli, slashTurns, cfg, world, inbox, turns, guildHistories,
                  lastRoute, systemEvents, outbox, appended >>

\* The Discord monitor is not part of this run.
DiscordIdle ==
  /\ cfg = BaseCfg
  /\ world = BaseWorld
  /\ inbox = << >>
  /\ monitor = Running
  /\ turns = << >>
  /\ guildHistories = [c \in ChannelIds |-> << >>]
  /\ lastRoute = << >>
  /\ systemEvents = << >>
  /\ outbox = << >>
  /\ appended = [c \in ChannelIds |-> << >>]
  /\ slashTurns = << >>

InitCron ==
  /\ DiscordIdle
  /\ cli = NoCli
  /\ \E p \in CronPayloads : job = NewJob(p)

NextCron == MigrateCall \/ CoerceCall

SpecCron == InitCron /\ [][NextCron]_vars

\* ------------------------------------------------------------------------
\* nodes camera snap (src/cli/nodes-cli.ts)
\* ------------------------------------------------------------------------
DigitSeq == << "0", "1", "2", "3", "4", "5", "6", "7", "8", "9" >>
DigitValue(c) == (CHOOSE i \in DOMAIN DigitSeq : DigitSeq[i] = c) - 1

\* The longest prefix of s made of digits.
RECURSIVE DigitPrefix(_)
DigitPrefix(s) ==
  IF s # << >> /\ Head(s) \in Digits THEN << Head(s) >> \o DigitPrefix(Tail(s)) ELSE << >>

RECURSIVE DecimalValue(_)
DecimalValue(ds) ==
  IF ds = << >> THEN 0 ELSE 10 * DecimalValue(SubSeq(ds, 1, Len(ds) - 1)) + DigitValue(ds[Len(ds)])

\* Number.parseInt(text, 10) of an unsigned text: the number its leading
\* digits spell after leading white space, << >> for NaN.
ParseInt(text) ==
  LET ds == DigitPrefix(TrimLeft(text))
  IN IF ds = << >> THEN << >> ELSE << DecimalValue(ds) >>

\* opts.invokeTimeout ? Number.parseInt(String(opts.invokeTimeout), 10) : undefined,
\* kept only when it is a finite number.
InvokeTimeoutMs(invokeTimeout) ==
  IF invokeTimeout = << >> THEN << >> ELSE ParseInt(invokeTimeout)

\* normalizeNodeKey
normalizeNodeKey(value) ==
  LET lower == ToLower(value)
  IN StripTrailing(
       StripLeading(ReplaceRuns(lower, CharsOf(lower) \ (LowerAlpha \cup Digits)), {"-"}),
       {"-"})

\* The filter of resolveNodeId: the node is meant by the query q.
NodeMatches(n, q) ==
  \/ n.nodeId = q
  \/ n.remoteIp # None /\ n.remoteIp = q
  \/ n.displayName # None /\ n.displayName # << >>
       /\ normalizeNodeKey(n.displayName) = normalizeNodeKey(q)
  \/ Len(q) >= 6 /\ StartsWith(n.nodeId, q)

\* nodes.filter(...) of resolveNodeId
NodeMatchesOf(nodes, q) == SelectSeq(nodes, LAMBDA n : NodeMatches(n, q))

WordBoth == << "b", "o", "t", "h" >>
WordFront == << "f", "r", "o", "n", "t" >>
WordBack == << "b", "a", "c", "k" >>

facingsReversed(facing) ==
  LET facingOpt == ToLower(Trim(facing))
  IN IF facingOpt = WordBoth THEN << WordBack, WordFront >>
     ELSE IF facingOpt \in { WordFront, WordBack } THEN << facingOpt >>
     ELSE << >>

\* The facings of the command for the option as given: it is trimmed and
\* lower-cased; << >> when it is invalid (the code throws).
facings(facing) ==
  LET facingOpt == ToLower(Trim(facing))
  IN IF facingOpt = WordBoth THEN << WordFront, WordBack >>
     ELSE IF facingOpt \in { WordFront, WordBack } THEN << facingOpt >>
     ELSE << >>

\* Base64 (RFC 4648) over bytes 0..255.
Base64Chars ==
  UpperSeq \o LowerSeq \o DigitSeq \o << "+", "/" >>
Base64Value(c) == (CHOOSE i \in DOMAIN Base64Chars : Base64Chars[i] = c) - 1
Base64Char(v) == Base64Chars[v + 1]

\* One group of up to three bytes as four characters.
Base64Group(bytes) ==
  LET b1 == bytes[1]
      b2 == IF Len(bytes) >= 2 THEN bytes[2] ELSE 0
      b3 == IF Len(bytes) >= 3 THEN bytes[3] ELSE 0
      n == b1 * 65536 + b2 * 256 + b3
  IN << Base64Char(n \div 262144), Base64Char((n \div 4096) % 64),
        IF Len(bytes) >= 2 THEN Base64Char((n \div 64) % 64) ELSE "=",
        IF Len(bytes) >= 3 THEN Base64Char(n % 64) ELSE "=" >>

\* The node's encoding of the captured image.
RECURSIVE Base64Encode(_)
Base64Encode(bytes) ==
  IF bytes = << >> THEN << >>
  ELSE IF Len(bytes) <= 3 THEN Base64Group(bytes)
  ELSE Base64Group(SubSeq(bytes, 1, 3)) \o Base64Encode(SubSeq(bytes, 4, Len(bytes)))

\* Four characters as up to three bytes.
Base64Ungroup(chars) ==
  LET v(i) == IF chars[i] = "=" THEN 0 ELSE Base64Value(chars[i])
      n == v(1) * 262144 + v(2) * 4096 + v(3) * 64 + v(4)
      all == << n \div 65536, (n \div 256) % 256, n % 256 >>
  IN IF chars[3] = "=" THEN SubSeq(all, 1, 1)
     ELSE IF chars[4] = "=" THEN SubSeq(all, 1, 2)
     ELSE all

\* Buffer.from(base64, "base64") of a padded text.
RECURSIVE Base64Decode(_)
Base64Decode(text) ==
  IF Len(text) < 4 THEN << >>
  ELSE Base64Ungroup(SubSeq(text, 1, 4)) \o Base64Decode(SubSeq(text, 5, Len(text)))

\* The nodes the gateway answers node.list with, and the paired nodes it
\* answers node.pair.list with.
IosNodeId == << "i", "o", "s", "-", "n", "o", "d", "e" >>
NovaNodeId == << "i", "o", "s", "-", "n", "o", "v", "a" >>
IosNodeName == << "i", "O", "S", " ", "N", "o", "d", "e" >>
IosNodeIp == << "1", "0", ".", "0", ".", "0", ".", "8" >>
NodeIos == [nodeId |-> IosNodeId, displayName |-> IosNodeName, remoteIp |-> IosNodeIp]
NodeNova == [nodeId |-> NovaNodeId, displayName |-> None, remoteIp |-> None]
GatewayNodes == << NodeIos, NodeNova >>
PairedNodes == << NodeIos >>

\* The command line: --node, --facing (default "both"), --json (default
\* false), --invoke-timeout (default "20000"). --max-width and --quality are
\* not given; url, token and timeout go to every gateway call unchanged.
DefaultFacing == WordBoth
DefaultInvokeTimeout == << "2", "0", "0", "0", "0" >>
NodeQueries ==
  { IosNodeId, IosNodeName, IosNodeIp, << " " >> \o NovaNodeId,
    << "i", "o", "s", "-", "n", "o" >>, << "m", "a", "c" >>, << " " >> }
FacingOptions ==
  { DefaultFacing, << "F", "r", "o", "n", "t" >>, << "b", "a", "c", "k", " " >>,
    << "u", "p" >> }
InvokeTimeoutOptions ==
  { DefaultInvokeTimeout, << "9", "0", "0", "s" >>, << "s", "o", "o", "n" >> }
SnapOptions ==
  [ node : NodeQueries, facing : FacingOptions, json : BOOLEAN,
    invokeTimeout : InvokeTimeoutOptions ]

\* What a camera can capture, and the formats a node names.
Images == { << 104, 105 >>, << 255, 0, 7, 9 >> }
SnapFormats == { "jpg", "jpeg" }
\* Suffixes that keep the temporary paths of one run apart.
PathIds == { 1, 2 }

\* One call of callGatewayCli.
GatewayCall(method, nodeId, facing, timeoutMs, key) ==
  [ method |-> method, nodeId |-> nodeId,
    command |-> IF method = "node.invoke" THEN "camera.snap" ELSE "",
    facing |-> facing, format |-> IF method = "node.invoke" THEN "jpg" ELSE "",
    timeoutMs |-> timeoutMs, idempotencyKey |-> key ]

ListCall(method) == GatewayCall(method, << >>, << >>, << >>, 0)

NewCli(opts) ==
  [ opts |-> opts, pc |-> "start", nodeId |-> << >>, todo |-> << >>, calls |-> << >>,
    captured |-> << >>, pending |-> << >>, results |-> << >>, files |-> {},
    stdout |-> << >>, errors |-> << >>, exitCode |-> 0, exited |-> FALSE ]

\* catch (err): defaultRuntime.error(...), defaultRuntime.exit(1)
SnapFailed(c, err) ==
  [ c EXCEPT !.pc = "done", !.errors = Append(@, err), !.exitCode = 1, !.exited = TRUE ]

MediaLine(r) == << "MEDIA:", r.path >>

\* After the loop: one JSON document with --json, else the MEDIA lines joined
\* by new lines in one log call.
SnapPrinted(c) ==
  [ c EXCEPT !.pc = "done",
             !.stdout = IF c.opts.json THEN Append(@, << "json", c.results >>)
                        ELSE @ \o [i \in DOMAIN c.results |-> MediaLine(c.results[i])] ]

\* The head of the loop body: the next facing is asked of the node, the
\* timeout is part of the call only when it is a number.
SnapInvokeNext(c) ==
  IF c.todo = << >> THEN SnapPrinted(c)
  ELSE [ c EXCEPT !.pc = "node.invoke",
                  !.calls = Append(@, GatewayCall("node.invoke", c.nodeId, Head(c.todo),
                                                  InvokeTimeoutMs(c.opts.invokeTimeout),
                                                  Len(c.calls) + 1)) ]

\* The action from the node list on: the node is resolved, the facings are
\* read, the first invoke is sent.
SnapResolved(c, nodes) ==
  LET matches == NodeMatchesOf(nodes, Trim(c.opts.node))
  IN IF Len(matches) = 0 THEN SnapFailed(c, "unknown node")
     ELSE IF Len(matches) > 1 THEN SnapFailed(c, "ambiguous node")
     ELSE IF facings(c.opts.facing) = << >> THEN SnapFailed(c, "invalid facing")
     ELSE SnapInvokeNext([c EXCEPT !.nodeId = matches[1].nodeId,
                                   !.todo = facings(c.opts.facing)])

\* cameraTempPath({kind: "snap", facing, ext})
cameraTempPath(facing, ext, id) == << "snap", facing, ext, id >>

SnapExt(format) == IF format = "jpeg" THEN "jpg" ELSE format

\* writeBase64ToFile(filePath, base64)
writeBase64ToFile(files, filePath, base64) ==
  { f \in files : f.path # filePath } \cup { [path |-> filePath, bytes |-> Base64Decode(base64)] }

CliIdle ==
  UNCHANGED << monitor, job, slashTurns, cfg, world, inbox, turns, guildHistories,
               lastRoute, systemEvents, outbox, appended >>

\* The command starts: resolveNodeId up to its first gateway call.
SnapRun ==
  /\ cli # NoCli
  /\ cli.pc = "start"
  /\ cli' = IF Trim(cli.opts.node) = << >> THEN SnapFailed(cli, "node required")
            ELSE [cli EXCEPT !.pc = "node.list", !.calls = Append(@, ListCall("node.list"))]
  /\ CliIdle

\* node.list answers.
NodeListOk ==
  /\ cli # NoCli
  /\ cli.pc = "node.list"
  /\ cli' = SnapResolved(cli, GatewayNodes)
  /\ CliIdle

\* node.list fails: the paired nodes are asked for.
NodeListFail ==
  /\ cli # NoCli
  /\ cli.pc = "node.list"
  /\ cli' = [cli EXCEPT !.pc = "node.pair.list",
                        !.calls = Append(@, ListCall("node.pair.list"))]
  /\ CliIdle

PairListOk ==
  /\ cli # NoCli
  /\ cli.pc = "node.pair.list"
  /\ cli' = SnapResolved(cli, PairedNodes)
  /\ CliIdle

PairListFail ==
  /\ cli # NoCli
  /\ cli.pc = "node.pair.list"
  /\ cli' = SnapFailed(cli, "gateway")
  /\ CliIdle

\* node.invoke answers with a payload parseCameraSnapPayload accepts: the
\* path is made and the write starts.
InvokeOk ==
  /\ cli # NoCli
  /\ cli.pc = "node.invoke"
  /\ \E image \in Images, format \in SnapFormats, id \in PathIds :
       cli' = [cli EXCEPT !.pc = "write",
                          !.captured = Append(@, [facing |-> Head(cli.todo), bytes |-> image]),
                          !.pending = << [path |-> cameraTempPath(Head(cli.todo),
                                                                  SnapExt(format), id),
                                          base64 |-> Base64Encode(image)] >>]
  /\ CliIdle

\* node.invoke answers with a payload parseCameraSnapPayload rejects.
InvokeBadPayload ==
  /\ cli # NoCli
  /\ cli.pc = "node.invoke"
  /\ cli' = SnapFailed(cli, "invalid payload")
  /\ CliIdle

\* node.invoke fails or times out.
InvokeFail ==
  /\ cli # NoCli
  /\ cli.pc = "node.invoke"
  /\ cli' = SnapFailed(cli, "gateway")
  /\ CliIdle

\* The file is written: the result is kept and the loop goes on.
WriteOk ==
  /\ cli # NoCli
  /\ cli.pc = "write"
  /\ cli' = SnapInvokeNext(
              [cli EXCEPT !.files = writeBase64ToFile(@, cli.pending[1].path,
                                                      cli.pending[1].base64),
                          !.results = Append(@, [facing |-> Head(cli.todo),
                                                 path |-> cli.pending[1].path]),
                          !.pending = << >>,
                          !.todo = Tail(@)])
  /\ CliIdle

WriteFail ==
  /\ cli # NoCli
  /\ cli.pc = "write"
  /\ cli' = SnapFailed([cli EXCEPT !.pending = << >>], "write")
  /\ CliIdle

InitSnap ==
  /\ DiscordIdle
  /\ job = NoJob
  /\ \E opts \in SnapOptions : cli = NewCli(opts)

NextSnap ==
  \/ SnapRun
  \/ NodeListOk
  \/ NodeListFail
  \/ PairListOk
  \/ PairListFail
  \/ InvokeOk
  \/ InvokeBadPayload
  \/ InvokeFail
  \/ WriteOk
  \/ WriteFail

SpecSnap == InitSnap /\ [][NextSnap]_vars

\* ------------------------------------------------------------------------
\* Properties
\* ------------------------------------------------------------------------
IsSuffix(s, log) ==
  Len(s) <= Len(log) /\ s = SubSeq(log, Len(log) - Len(s) + 1, Len(log))

\* C1: in every reachable state the stored history of every channel has at
\* most historyLimit entries (none when the limit is 0) and is a suffix of
\* the sequence of entries pushed for that channel: the most recent entries,
\* in arrival order, the oldest evicted first.
C1_HistoryBounded ==
  \A c \in ChannelIds :
    /\ Len(guildHistories[c]) <= historyLimit
    /\ IsSuffix(guildHistories[c], appended[c])

\* C1 witness: a channel whose history is full with two or more entries
\* after an eviction, no turn having cleared it.
C1_Witness ==
  \E c \in ChannelIds :
    /\ historyLimit >= 2
    /\ Len(guildHistories[c]) = historyLimit
    /\ Len(appended[c]) > historyLimit
    /\ \A t \in DOMAIN turns : ~turns[t].clearedHistory

\* A turn is over: its handler returned and none of its sends is pending.
TurnOver(t) ==
  turns[t].pc = "done" /\ turns[t].call = << >> /\ turns[t].blockSendChain = << >>

\* The handler of turn t returns in this step.
TurnEnds(t) == turns[t].pc # "done" /\ turns'[t].pc = "done"

DeliveredSome(box) == \E i \in DOMAIN box : box[i].ok
FailedSome(box) == \E i \in DOMAIN box : ~box[i].ok

GuildTurnWithHistory(t) == isGuildMessage(turns[t].msg) /\ historyLimit > 0

\* C2: when the handler of a guild turn (historyLimit > 0) returns and a send
\* of the turn, of a block reply or of a final payload, was delivered, the
\* history of the channel is empty.
C2_ClearedAfterDelivery ==
  [][\A t \in DOMAIN turns :
       (GuildTurnWithHistory(t) /\ TurnEnds(t) /\ DeliveredSome(outbox'[t]))
         => guildHistories'[turns[t].msg.channelId] = << >>]_vars

\* C3: when the handler of a guild turn returns and no send of the turn was
\* delivered, the step leaves the history of the channel as it was.
C3_KeptWithoutDelivery ==
  [][\A t \in DOMAIN turns :
       (isGuildMessage(turns[t].msg) /\ TurnEnds(t) /\ ~DeliveredSome(outbox'[t]))
         => guildHistories'[turns[t].msg.channelId]
              = guildHistories[turns[t].msg.channelId]]_vars

\* C4: a message of a guild channel or of a group DM for which requireMention
\* resolves true and that does not mention the bot never reaches the reply
\* generator and causes no send.
C4_MentionGateAllGroups ==
  \A t \in DOMAIN turns :
    (~isDirectMessage(turns[t].msg) /\ resolvedRequireMention(turns[t].msg)
       /\ ~turns[t].msg.mentionsBot)
      => (~turns[t].genCalled /\ outbox[t] = << >>)

\* An entry of dm.allowFrom names the author by id or by user name.
ListedBy(entry, author) ==
  Trim(entry) = author.id \/ ToLower(Trim(entry)) = ToLower(author.username)

Unlisted(m) ==
  /\ isDirectMessage(m)
  /\ cfg.allowFrom # << >>
  /\ \A i \in DOMAIN cfg.allowFrom : ~ListedBy(cfg.allowFrom[i], m.author[1])

RouteOf(m) == << [channel |-> "discord", to |-> << "u", "s", "e", "r", ":" >> \o m.author[1].id] >>

\* C5: a direct message whose sender matches no entry of a non-empty
\* dm.allowFrom is dropped at once: no reply generation, no send, no history
\* append or clear, and the session's last route is never set for its sender.
C5_UnlistedDmDropped ==
  \A t \in DOMAIN turns :
    Unlisted(turns[t].msg)
      => /\ turns[t].pc = "done"
         /\ ~turns[t].genCalled
         /\ outbox[t] = << >>
         /\ ~turns[t].historyPushed /\ ~turns[t].clearedHistory
         /\ \A c \in ChannelIds : guildHistories[c] = << >> /\ appended[c] = << >>
         /\ lastRoute # RouteOf(turns[t].msg)

\* C5 witness: a direct message from an unlisted sender was handled.
C5_Witness ==
  \E t \in DOMAIN turns :
    Unlisted(turns[t].msg) /\ turns[t].outcome = "dm-sender-not-allowed"

HistoryHas(history, messageId) == \E i \in DOMAIN history : history[i].messageId = messageId

\* C6: a turn aborted by a 404 on its attachment never reached the reply
\* generator, sent nothing, and its message has no entry in the history of
\* its channel.
C6_NoAppendOnFetchFailure ==
  \A t \in DOMAIN turns :
    turns[t].outcome = "http-404"
      => /\ ~turns[t].genCalled
         /\ outbox[t] = << >>
         /\ ~HistoryHas(guildHistories[turns[t].msg.channelId], turns[t].msg.id)

Attempted(box, kind, index) ==
  \E i \in DOMAIN box : box[i].kind = kind /\ box[i].payload = index

Sends(payload) == PayloadSends(payload, 1, chunkLimit) # << >>

\* C7: once a turn in which a send of a final payload failed is over, every
\* final payload with text or media has been attempted.
C7_RemainingPayloadsAttempted ==
  \A t \in DOMAIN turns :
    (TurnOver(t) /\ FailedSome(outbox[t]) /\ turns[t].outcome = "delivery-failed")
      => \A i \in DOMAIN turns[t].replies :
           Sends(turns[t].replies[i]) => Attempted(outbox[t], "final", i)

\* C8: when the handler of a guild turn (historyLimit > 0) returns and a send
\* of the turn was attempted and failed, the history of the channel is empty.
C8_ClearedAfterAttempt ==
  [][\A t \in DOMAIN turns :
       (GuildTurnWithHistory(t) /\ TurnEnds(t) /\ FailedSome(outbox'[t]))
         => guildHistories'[turns[t].msg.channelId] = << >>]_vars

Threaded(box) == { i \in DOMAIN box : box[i].replyTo # None }
CarriesReplyToId(r) == r.replyToId # None /\ Trim(r.replyToId) # << >>
AllCarryReplyToId(box) == \A i \in DOMAIN box : CarriesReplyToId(box[i])

\* C9: with replyToMode "first", among the sends of one turn whose payloads
\* all carry a replyToId, at most one carries a reply reference.
C9_OneThreadedSendPerTurn ==
  \A t \in DOMAIN turns :
    (replyToMode = "first" /\ AllCarryReplyToId(outbox[t]))
      => Cardinality(Threaded(outbox[t])) <= 1

\* The sends of deliverReplies call number no of a turn, in order.
SendsOfCall(box, no) ==
  LET OfCall(r) == r.call = no IN SelectSeq(box, OfCall)

\* Exactly the first send of a call carries a reply reference.
OnlyFirstThreaded(sends) == sends # << >> => Threaded(sends) = {1}

C11_OffNeverAllAlways ==
  \A t \in DOMAIN turns : \A i \in DOMAIN outbox[t] :
    /\ replyToMode = "off" => outbox[t][i].replyTo = None
    /\ replyToMode = "all" => outbox[t][i].replyTo = turns[t].msg.id

ReplyToModeUnset == cfg.optReplyToMode = "unset" /\ cfg.discordReplyToMode = "unset"

\* C12: when replyToMode is set neither by option nor in the discord
\* configuration, the first send of a turn whose payload carries a replyToId
\* carries the reply reference and no later send of the turn does.
C12_DefaultThreadsFirst ==
  ReplyToModeUnset
    => \A t \in DOMAIN turns :
         (outbox[t] # << >> /\ CarriesReplyToId(outbox[t][1]))
           => Threaded(outbox[t]) = {1}

\* A send of a block reply of turn t fails in this step.
BlockSendFails(t) ==
  /\ turns[t].call # << >>
  /\ turns[t].call[1].kind = "block"
  /\ Len(outbox'[t]) = Len(outbox[t]) + 1
  /\ ~outbox'[t][Len(outbox'[t])].ok

StartsDelivery(turn, kind, plan) ==
  turn.call # << >> /\ turn.call[1].kind = kind /\ turn.call[1].plan = plan
    /\ turn.call[1].next = 1

\* C13: when a send of a block reply fails, the delivery of the next queued
\* block reply starts; when none is queued and the generator has returned
\* payloads that send, the final delivery starts; while the generator is
\* still running the handler keeps waiting for it.
C13_BlockFailureIsolated ==
  [][\A t \in DOMAIN turns :
       BlockSendFails(t)
         => /\ turns[t].blockSendChain # << >>
                 => StartsDelivery(turns'[t], "block",
                                   SendPlan(<< Head(turns[t].blockSendChain) >>, chunkLimit))
            /\ (turns[t].blockSendChain = << >> /\ turns[t].pc = "chain"
                  /\ SendPlan(turns[t].replies, chunkLimit) # << >>)
                 => /\ turns'[t].pc = "deliver"
                    /\ StartsDelivery(turns'[t], "final",
                                       SendPlan(turns[t].replies, chunkLimit))
            /\ (turns[t].blockSendChain = << >> /\ turns[t].pc = "gen")
                 => turns'[t].pc = "gen" /\ turns'[t].call = << >>]_vars

\* C13 witness: in one turn a block send failed, a send of a later block
\* reply was delivered and a send of a final payload was delivered.
C13_Witness ==
  \E t \in DOMAIN turns : \E i, j, k \in DOMAIN outbox[t] :
    /\ i < j /\ j < k
    /\ outbox[t][i].kind = "block" /\ ~outbox[t][i].ok
    /\ outbox[t][j].kind = "block" /\ outbox[t][j].ok
    /\ outbox[t][j].call > outbox[t][i].call
    /\ outbox[t][k].kind = "final" /\ outbox[t][k].ok

\* The sends of a turn are grouped by delivery call, in call order, and no
\* send of a final payload precedes a send of a block reply.
OrderedBox(box) ==
  \A i, j \in DOMAIN box :
    i < j => /\ box[i].call <= box[j].call
             /\ ~(box[i].kind = "final" /\ box[j].kind = "block")

\* A delivery call of the given kind starts for turn t in this step.
CallStarts(t, kind) ==
  /\ turns'[t].calls = turns[t].calls + 1
  /\ turns'[t].call # << >>
  /\ turns'[t].call[1].kind = kind

\* The queue of block replies changes only by losing its head or by gaining
\* a payload at its end.
QueueStep(q, q2) ==
  \/ q2 = q
  \/ q # << >> /\ q2 = Tail(q)
  \/ \E p \in world.blockPayloads : q2 = Append(q, p)

\* The block delivery that starts is that of the oldest queued payload, or of
\* the payload onBlockReply was just called with when none is queued.
OldestBlockStarts(t) ==
  IF turns[t].blockSendChain # << >>
  THEN /\ turns'[t].call[1].plan = SendPlan(<< Head(turns[t].blockSendChain) >>, chunkLimit)
       /\ turns'[t].blockSendChain = Tail(turns[t].blockSendChain)
  ELSE turns'[t].blocks = turns[t].blocks + 1 /\ turns'[t].blockSendChain = << >>

\* A delivery call starts only when none is in progress or when the one in
\* progress settles its last send in the same step.
OneAtATime(t) ==
  turns'[t].calls > turns[t].calls
    => (turns[t].call = << >> \/ Len(outbox'[t]) = Len(outbox[t]) + 1)

\* C14: the block replies of a turn are delivered one at a time, in the order
\* of the onBlockReply calls, and the final delivery starts only when no block
\* reply is queued or in delivery, so every send of a block reply precedes
\* every send of a final payload.
C14_BlocksInOrderBeforeFinal ==
  [][\A t \in DOMAIN turns :
       /\ OrderedBox(outbox'[t])
       /\ QueueStep(turns[t].blockSendChain, turns'[t].blockSendChain)
       /\ OneAtATime(t)
       /\ CallStarts(t, "block") => OldestBlockStarts(t)
       /\ CallStarts(t, "final")
            => turns[t].blockSendChain = << >> /\ turns'[t].blockSendChain = << >>]_vars

\* C14 witness: a turn delivered two block replies and then a final payload.
C14_Witness ==
  \E t \in DOMAIN turns :
    /\ Len(outbox[t]) >= 3
    /\ \A i \in DOMAIN outbox[t] : outbox[t][i].ok
    /\ outbox[t][1].kind = "block" /\ outbox[t][1].call = 1
    /\ \E j \in DOMAIN outbox[t] : outbox[t][j].kind = "block" /\ outbox[t][j].call = 2
    /\ outbox[t][Len(outbox[t])].kind = "final"
    /\ outbox[t][Len(outbox[t])].call = 3

IsPrefix(s, log) == Len(s) <= Len(log) /\ s = SubSeq(log, 1, Len(s))

NoFinalSend(box) == \A i \in DOMAIN box : box[i].kind # "final"

\* C15: once the reply generator has thrown in a turn, the handler has
\* returned and stays so (the generator is not called again), it holds no
\* result, no final payload is ever sent, and the sends already made stay in
\* the record of the provider.
C15_GeneratorErrorAborts ==
  [][\A t \in DOMAIN turns :
       turns'[t].outcome = "generation-failed"
         => /\ turns'[t].pc = "done"
            /\ turns'[t].replies = << >>
            /\ NoFinalSend(outbox'[t])
            /\ IsPrefix(outbox[t], outbox'[t])]_vars

\* C15 witness: the generator threw after a block reply had been delivered.
C15_Witness ==
  \E t \in DOMAIN turns :
    /\ turns[t].outcome = "generation-failed"
    /\ \E i \in DOMAIN outbox[t] :
         outbox[t][i].kind = "block" /\ outbox[t][i].ok /\ ~outbox[t][i].handlerDone

\* The sends of the final delivery of a turn, and those of its payload i.
FinalSends(box) == LET IsFinal(r) == r.kind = "final" IN SelectSeq(box, IsFinal)
FinalSendsOf(box, i) ==
  LET OfPayload(r) == r.kind = "final" /\ r.payload = i IN SelectSeq(box, OfPayload)

TextsOf(sends) == [i \in DOMAIN sends |-> sends[i].text]
UrlsOf(sends) == [i \in DOMAIN sends |-> sends[i].mediaUrl]

HasNoMedia(payload) == MediaList(payload) = << >>
IsSilent(payload) == PayloadText(payload) = << >> /\ HasNoMedia(payload)

\* The sends of the final payloads follow the list order.
InListOrder(finals) ==
  \A i, j \in DOMAIN finals : i < j => finals[i].payload <= finals[j].payload

\* The sends of text-only payload i are the chunks of its text, in order.
ChunksInOrder(turn, box, i) ==
  /\ IsPrefix(TextsOf(FinalSendsOf(box, i)),
              chunkText(PayloadText(turn.replies[i]), chunkLimit))
  /\ turn.outcome = "delivered"
       => Len(FinalSendsOf(box, i)) = Len(chunkText(PayloadText(turn.replies[i]), chunkLimit))

\* C16: the sends of the final payloads of a turn follow the list order, one
\* settled before the next starts; the sends of a text-only payload are the
\* chunks of its text in order, all of them once the delivery has returned;
\* a payload without text and media has no send, and a delivery of such
\* payloads alone returns without an error.
C16_FinalPayloadsInOrder ==
  \A t \in DOMAIN turns :
    /\ InListOrder(FinalSends(outbox[t]))
    /\ \A i \in DOMAIN turns[t].replies :
         /\ (HasNoMedia(turns[t].replies[i]) /\ ~IsSilent(turns[t].replies[i]))
              => ChunksInOrder(turns[t], outbox[t], i)
         /\ IsSilent(turns[t].replies[i]) => FinalSendsOf(outbox[t], i) = << >>
    /\ (turns[t].replies # << >> /\ turns[t].pc = "done"
          /\ \A i \in DOMAIN turns[t].replies : IsSilent(turns[t].replies[i]))
         => turns[t].outcome = "delivered"

\* C16 witness: a delivery of two payloads returned after the three chunks
\* of the first, in text order, and then the one send of the second.
C16_Witness ==
  \E t \in DOMAIN turns :
    /\ turns[t].outcome = "delivered"
    /\ Len(turns[t].replies) = 2
    /\ TextsOf(FinalSendsOf(outbox[t], 1)) = << TextHi, TextYo, << "h" >> >>
    /\ Len(FinalSendsOf(outbox[t], 2)) = 1

\* The sends of media payload i are one per URL, in list order, the first
\* with the text as caption and the others with an empty caption.
OnePerUrl(turn, box, i) ==
  /\ IsPrefix(UrlsOf(FinalSendsOf(box, i)), MediaList(turn.replies[i]))
  /\ \A j \in DOMAIN FinalSendsOf(box, i) :
       FinalSendsOf(box, i)[j].text
         = IF j = 1 THEN PayloadText(turn.replies[i]) ELSE << >>
  /\ turn.outcome = "delivered"
       => Len(FinalSendsOf(box, i)) = Len(MediaList(turn.replies[i]))

\* C17: a final payload with k >= 1 media URLs is sent as one message per
\* URL, in list order, exactly k once the delivery has returned; the first
\* carries the text of the payload as caption and the later ones an empty
\* caption.
C17_OneSendPerMediaUrl ==
  \A t \in DOMAIN turns : \A i \in DOMAIN turns[t].replies :
    ~HasNoMedia(turns[t].replies[i]) => OnePerUrl(turns[t], outbox[t], i)

\* C17 witness: the result [{text}, {text: "", mediaUrl}] was delivered as
\* the chunks of the text and then one media send with an empty caption, and
\* so was a payload of two URLs with a caption.
C17_Witness ==
  /\ \E t \in DOMAIN turns :
       /\ turns[t].outcome = "delivered"
       /\ turns[t].replies = << Payload(TextHiYoH, None, << >>, None),
                                Payload(<< >>, Url1, << >>, None) >>
       /\ Len(outbox[t]) = 4
       /\ outbox[t][4].mediaUrl = Url1 /\ outbox[t][4].text = << >>
  \/ \E t \in DOMAIN turns :
       /\ turns[t].outcome = "delivered"
       /\ turns[t].replies = << Payload(TextYo, None, << << Url1, Url2 >> >>, None) >>
       /\ TextsOf(outbox[t]) = << TextYo, << >> >>

\* C18: the text of every send, chunk or caption, is at most
\* min(text limit, 2000) characters long.
C18_TextWithinLimit ==
  \A t \in DOMAIN turns : \A i \in DOMAIN outbox[t] :
    Len(outbox[t][i].text) <= Min(cfg.textLimit, DiscordMaxChars)

\* The candidates of the allow-list scenario: its senders, the empty
\* candidate, and a candidate of an id alone.
EmptyCandidate == [id |-> None, name |-> None, tag |-> None]
AllowCandidates ==
  { Candidate(u) : u \in AllowSenders } \cup
  { EmptyCandidate, [EmptyCandidate EXCEPT !.id = << "8" >>] }

Present(value) == value # None

\* The case-folded or the slug-folded form of a name is one of the names.
FoldedIn(names, value) ==
  Present(value) /\ (ToLower(Trim(value)) \in names \/ normalizeDiscordSlug(value) \in names)

\* The right-hand side of the equivalence: allowAll, the id among the ids, or
\* a folded form of the name or of the tag among the names.
ListedIn(list, candidate) ==
  \/ list.allowAll
  \/ Present(candidate.id) /\ candidate.id \in list.ids
  \/ FoldedIn(list.names, candidate.name)
  \/ FoldedIn(list.names, candidate.tag)

HasWildcard(raw) == \E i \in DOMAIN raw : Trim(raw[i]) = << "*" >>

dmAllowList == normalizeDiscordAllowList(cfg.allowFrom, DiscordUserPrefixes)

\* C19: for the list built from the raw entries of dm.allowFrom,
\* allowListMatches(list, candidate) is true if and only if list.allowAll
\* holds, or candidate.id is in list.ids, or the case-folded or slug-folded
\* form of candidate.name or candidate.tag is in list.names; allowAll is set
\* exactly when a raw entry is "*", and then the empty candidate matches; a
\* direct message is dropped as not allowed exactly when its sender is not
\* matched in this sense.
C19_MatchesIffListed ==
  LET built == dmAllowList
      list == built[1]
  IN  built # << >> =>
        /\ \A c \in AllowCandidates : allowListMatches(list, c) <=> ListedIn(list, c)
        /\ list.allowAll <=> HasWildcard(cfg.allowFrom)
        /\ list.allowAll => allowListMatches(list, EmptyCandidate)
        /\ \A t \in DOMAIN turns :
             isDirectMessage(turns[t].msg)
               => (turns[t].outcome = "dm-sender-not-allowed"
                     <=> ~ListedIn(list, Candidate(turns[t].msg.author[1])))

\* C19 witness: a direct message of a sender whose name is listed by its
\* slug-folded form alone went past the dm.allowFrom check.
C19_Witness ==
  \E t \in DOMAIN turns :
    /\ isDirectMessage(turns[t].msg)
    /\ turns[t].msg.author[1] = UserAB
    /\ dmAllowList # << >>
    /\ ~dmAllowList[1].allowAll
    /\ UserAB.id \notin dmAllowList[1].ids
    /\ ToLower(Trim(UserAB.username)) \notin dmAllowList[1].names
    /\ turns[t].genCalled

\* C20: a direct message under a non-empty dm.allowFrom whose entries build
\* no allow-list (null) is admitted: it is not dropped as not allowed.
C20_NullListAdmitsDm ==
  \A t \in DOMAIN turns :
    (isDirectMessage(turns[t].msg) /\ cfg.allowFrom # << >> /\ dmAllowList = << >>)
      => turns[t].outcome # "dm-sender-not-allowed"

\* The slug of the guild of a message.
GuildSlugOf(m) == normalizeDiscordSlug(m.guild[1].name)

\* Some configured key, slug-normalized, equals the slug of the guild.
SomeKeyFoldsTo(guildEntries, guildSlug) ==
  \E i \in DOMAIN guildEntries :
    SlugMatches(normalizeDiscordSlug(guildEntries[i].key), guildSlug)

\* C21: a guild message whose guild's slug equals the slug-normalized form
\* of a configured key of discord.guilds resolves to an entry: it is not
\* dropped as a message of an unconfigured guild.
C21_FoldedKeyResolves ==
  \A t \in DOMAIN turns :
    (isGuildMessage(turns[t].msg)
       /\ SomeKeyFoldsTo(cfg.guildEntries, GuildSlugOf(turns[t].msg)))
      => turns[t].outcome # "guild-not-configured"

\* The channels map of the guild entry a message resolves to.
ChannelsOf(m) == IF guildInfoOf(m) = << >> THEN << >> ELSE guildInfoOf(m)[1].channels

\* C22: a guild message whose channel matches no key of the channels map of
\* its guild entry resolves to the "*" entry of that map when there is one,
\* so it is not dropped as a message of a channel that is not allowed.
C22_ChannelWildcard ==
  \A t \in DOMAIN turns :
    (isGuildMessage(turns[t].msg)
       /\ Lookup(ChannelsOf(turns[t].msg), KeyStar) # << >>
       /\ Lookup(ChannelsOf(turns[t].msg), KeyStar)[1].allow # << FALSE >>)
      => turns[t].outcome # "channel-not-allowed"

\* The Discord client emits the oldest event it holds.
Emits == inbox # << >> /\ inbox' = Tail(inbox)

Last(seq) == seq[Len(seq)]

\* The guild of an event (<< >> without one known), and whether the event
\* is one of a guild.
GuildOfEvent(e) == IF e.event = "reaction" THEN e.message.guild ELSE e.guild
InGuild(e) == IF e.event = "interaction" THEN e.inGuild ELSE GuildOfEvent(e) # << >>

\* discord.guilds has entries and the guild of the event resolves to none.
Unconfigured(e) ==
  /\ cfg.guildEntries # << >>
  /\ InGuild(e)
  /\ resolveDiscordGuildEntry(GuildOfEvent(e), cfg.guildEntries) = << >>

\* A message turn that has returned without an effect of its own.
Untouched(turn) ==
  /\ turn.pc = "done" /\ ~turn.genCalled /\ ~turn.historyPushed
  /\ turn.call = << >> /\ turn.blockSendChain = << >>

\* A slash turn that has returned without a call of the interaction API.
SlashUntouched(turn) ==
  /\ turn.pc = "done" /\ ~turn.genCalled
  /\ turn.pending = << >> /\ turn.responses = << >>

\* The step that handles event e rejects it: no history append, no system
\* event, no route write, and the handler has returned without a reply
\* generation and without a send.
RejectedStep(e) ==
  /\ UNCHANGED << guildHistories, appended, systemEvents, lastRoute >>
  /\ e.event = "message"
       => Untouched(Last(turns')) /\ outbox' = Append(outbox, << >>)
            /\ UNCHANGED slashTurns
  /\ e.event = "interaction" => SlashUntouched(Last(slashTurns')) /\ UNCHANGED << turns, outbox >>
  /\ e.event = "reaction" => UNCHANGED << turns, slashTurns, outbox >>

\* The step that handles guild event e does not reject it for its guild.
GuildAdmittedStep(e) ==
  /\ e.event = "message" => Last(turns').outcome # "guild-not-configured"
  /\ e.event = "interaction" => Last(slashTurns').outcome # "guild-not-configured"
  /\ (e.event = "reaction" /\ ~e.user[1].bot /\ e.user[1].id # botId
        /\ e.message.authorId = botId)
       => systemEvents' = Append(systemEvents, ReactionEventOf(e))

\* C23: when discord.guilds has entries and the guild of a guild message, a
\* reaction or a slash interaction resolves to none of them, the event is
\* rejected (no history append, no system event, no reply generation, no
\* send); when discord.guilds has no entry, no guild event is rejected for
\* its guild.
C23_UnconfiguredGuildRejected ==
  [][Emits =>
       /\ Unconfigured(Head(inbox)) => RejectedStep(Head(inbox))
       /\ (cfg.guildEntries = << >> /\ InGuild(Head(inbox))) => GuildAdmittedStep(Head(inbox))]_vars

\* C23 witness: a message, a reaction and a slash interaction of a guild that
\* resolves to no entry of a non-empty discord.guilds were all handled.
C23_Witness ==
  /\ cfg.guildEntries # << >>
  /\ inbox = << >>
  /\ Len(turns) = 1 /\ turns[1].outcome = "guild-not-configured"
  /\ Len(slashTurns) = 1 /\ slashTurns[1].outcome = "guild-not-configured"
  /\ systemEvents = << >>

\* C24: every message context handed to the reply generator, by a message
\* turn or by the slash command, with ChatType "direct" has WasMentioned
\* false.
C24_DirectNeverMentioned ==
  /\ \A t \in DOMAIN turns :
       (turns[t].genCalled /\ turns[t].ctx[1].ChatType = "direct")
         => ~turns[t].ctx[1].WasMentioned
  /\ \A i \in DOMAIN slashTurns :
       (slashTurns[i].genCalled /\ slashTurns[i].ctx[1].ChatType = "direct")
         => ~slashTurns[i].ctx[1].WasMentioned

\* The chat type detected for event e is switched off.
ChatTypeDisabled(e) ==
  IF e.event = "message"
  THEN (isDirectMessage(e) /\ ~cfg.dmEnabled) \/ (isGroupDm(e) /\ ~cfg.groupDmEnabled)
  ELSE /\ e.event = "interaction"
       /\ \/ (slashIsDirectMessage(e) /\ ~cfg.dmEnabled)
          \/ (slashIsGroupDm(e) /\ ~cfg.groupDmEnabled)

\* C25: a message or a slash interaction whose chat type is switched off
\* (a direct chat while dm.enabled is false, a group DM while
\* dm.groupEnabled is false) is dropped when it is handled: no history
\* mutation, no route update, no reply generation, no send.
C25_DisabledChatTypeDropped ==
  [][(Emits /\ ChatTypeDisabled(Head(inbox))) => RejectedStep(Head(inbox))]_vars

\* C25 witness: a message and a slash interaction of one switched-off chat
\* type were both dropped for it.
C25_Witness ==
  \E reason \in { "dm-disabled", "group-dm-disabled" } :
    /\ Len(turns) = 1 /\ turns[1].outcome = reason
    /\ Len(slashTurns) = 1 /\ slashTurns[1].outcome = reason

\* The system events enqueued for message m.
SystemEventsFor(m) ==
  LET ForMessage(e) == e.kind = "system" /\ e.id = m.id /\ e.channelId = m.channelId
  IN  SelectSeq(systemEvents, ForMessage)

\* C26: the turn of a message whose type is a system event never calls the
\* reply generator and never sends, and at most one system event is
\* enqueued for the message.
C26_SystemMessageNoReply ==
  \A t \in DOMAIN turns :
    resolveDiscordSystemEvent(turns[t].msg)
      => /\ turns[t].pc = "done" /\ ~turns[t].genCalled
         /\ turns[t].call = << >> /\ turns[t].blockSendChain = << >>
         /\ outbox[t] = << >>
         /\ Len(SystemEventsFor(turns[t].msg)) <= 1

\* C26 witness: a pin message of a guild was handled and its system event
\* enqueued.
C26_Witness ==
  \E t \in DOMAIN turns :
    /\ turns[t].msg.type = "ChannelPinnedMessage"
    /\ turns[t].outcome = "system-event"
    /\ Len(SystemEventsFor(turns[t].msg)) = 1

\* The step that handles reaction r enqueues its notification, or none.
Notified(r) == systemEvents' = Append(systemEvents, ReactionEventOf(r))
NotNotified == UNCHANGED systemEvents

\* Reaction r passes the checks that come before the mode: its user is a
\* member other than the bot, and its guild and channel are admitted.
ReactionAdmitted(r) ==
  /\ r.user # << >> /\ ~r.user[1].bot /\ r.user[1].id # botId
  /\ r.message.guild # << >>
  /\ ~Unconfigured(r)
  /\ reactionChannelConfig(r).allowed

\* The reacting user is named by an entry of the users list.
InUsersList(users, user) == \E i \in DOMAIN users : ListedBy(users[i], user)

\* The mode gate on the step that handles reaction r under mode.
ModeAllows(r, mode) ==
  /\ Notified(r) \/ NotNotified
  /\ mode = "off" => NotNotified
  /\ (mode = "own" /\ Notified(r)) => r.message.authorId = botId
  /\ (mode = "allowlist" /\ Notified(r))
       => InUsersList(UsersOf(reactionGuildInfo(r)), r.user[1])
  /\ (mode = "all" /\ ReactionAdmitted(r)) => Notified(r)

\* C27: the step that handles a reaction (added or removed) enqueues a
\* system event only as the mode of its guild allows: never under "off";
\* under "own" only for a message of the bot; under "allowlist" only for a
\* user named by the users list of the guild (so never with an empty list);
\* under "all" for every admitted reaction.  It calls no reply generator,
\* makes no send and changes no history and no route.
C27_ReactionModeGate ==
  [][(Emits /\ Head(inbox).event = "reaction")
       => /\ ModeAllows(Head(inbox), reactionMode(reactionGuildInfo(Head(inbox))))
          /\ UNCHANGED << turns, slashTurns, outbox, guildHistories, appended, lastRoute >>]_vars

\* C27 witness: under the mode "allowlist" a reaction was notified.
C27_Witness ==
  /\ cfg.guildEntries # << >>
  /\ cfg.guildEntries[1].entry.reactionNotifications = "allowlist"
  /\ inbox = << >>
  /\ Len(systemEvents) = 1 /\ systemEvents[1].kind = "reaction"

\* Direct message m passed every admission check of the handler: its author
\* is no bot, direct chats are enabled, its sender is listed by dm.allowFrom
\* when there is one, it is no system message and it has a text.
DmAdmitted(m) ==
  /\ isDirectMessage(m) /\ ~m.author[1].bot
  /\ cfg.dmEnabled
  /\ cfg.allowFrom = << >> \/ InUsersList(cfg.allowFrom, m.author[1])
  /\ ~resolveDiscordSystemEvent(m)

\* Turn t writes the route in this step.
WritesRoute(t) ==
  /\ turns[t].pc = "route" /\ turns'[t].pc = "gen"
  /\ DmAdmitted(turns[t].msg)
  /\ lastRoute' = RouteOf(turns[t].msg)

\* C28: every step that changes the session route is the route write of the
\* turn of a direct message that passed every admission check, and it sets
\* the route to channel "discord" and target user:<sender id>; no step of a
\* guild message, a group DM, a reaction, a system message, a slash
\* interaction or a dropped event changes it.
C28_RouteOnlyByAdmittedDm ==
  [][lastRoute' # lastRoute => \E t \in DOMAIN turns : WritesRoute(t)]_vars

\* C28 witness: the route points to the sender of an admitted direct message
\* whose turn went on to the reply generator.
C28_Witness ==
  \E t \in DOMAIN turns :
    /\ DmAdmitted(turns[t].msg)
    /\ turns[t].genCalled
    /\ lastRoute = << [channel |-> "discord",
                       to |-> << "u", "s", "e", "r", ":" >> \o turns[t].msg.author[1].id] >>

\* No event is left to emit and every turn has completed.
AllTurnsDone ==
  /\ inbox = << >>
  /\ \A t \in DOMAIN turns :
       turns[t].pc = "done" /\ turns[t].call = << >> /\ turns[t].blockSendChain = << >>

\* Turn t is the turn of a direct message that was admitted and wrote the
\* route.
WroteRoute(t) == isDirectMessage(turns[t].msg) /\ turns[t].genCalled

\* C29: once every turn has completed, the session route points to the
\* sender of the most recently arrived direct message that was admitted.
C29_RouteIsLatestDm ==
  AllTurnsDone =>
    \A t \in DOMAIN turns :
      (WroteRoute(t) /\ \A u \in DOMAIN turns : u > t => ~WroteRoute(u))
        => lastRoute = RouteOf(turns[t].msg)

\* C30: the "since your last reply" block of the context of a guild turn
\* never holds the turn's own message.
C30_BlockExcludesOwnMessage ==
  \A t \in DOMAIN turns :
    (isGuildMessage(turns[t].msg) /\ turns[t].ctx # << >>)
      => ~HistoryHas(turns[t].ctx[1].History, turns[t].msg.id)

\* The step computes the context of turn u: the turn has none before it
\* (or does not exist yet) and has one after it.
ComputesContext(u) ==
  /\ u \in DOMAIN turns'
  /\ turns'[u].ctx # << >>
  /\ (u \in DOMAIN turns => turns[u].ctx = << >>)

\* Turns t and u are of the same guild channel, t arrived first, and the
\* handler of each appended its message to the history.
AppendedInOrder(t, u) ==
  /\ t < u
  /\ isGuildMessage(turns'[t].msg) /\ turns'[t].msg.channelId = turns'[u].msg.channelId
  /\ turns'[t].historyPushed /\ turns'[u].historyPushed

\* C31: when the context of the later of two messages of a guild channel is
\* computed, the append of the earlier one has happened (its entry is in the
\* log of appends of the channel), and the entry is in the context block of
\* the later turn if the history still stores it.
C31_AppendVisibleBeforeContext ==
  [][\A u \in DOMAIN turns' : \A t \in DOMAIN turns' :
       (ComputesContext(u) /\ AppendedInOrder(t, u))
         => /\ HistoryHas(appended'[turns'[t].msg.channelId], turns'[t].msg.id)
            /\ (HistoryHas(guildHistories'[turns'[t].msg.channelId], turns'[t].msg.id)
                  => HistoryHas(turns'[u].ctx[1].History, turns'[t].msg.id))]_vars

\* Reached: the context of the second message of a channel holds the entry of
\* the first.
C31_Witness ==
  \E u \in DOMAIN turns : \E t \in DOMAIN turns :
    /\ t < u /\ turns[u].ctx # << >>
    /\ isGuildMessage(turns[t].msg) /\ turns[t].msg.channelId = turns[u].msg.channelId
    /\ turns[t].historyPushed /\ turns[u].historyPushed
    /\ HistoryHas(turns[u].ctx[1].History, turns[t].msg.id)

\* The outcomes of a handler that ended in its catch.
FailureOutcomes == { "generation-failed", "delivery-failed", "http-404", "too-large" }

\* The step is a failure in turn t: its handler ends in the catch, or a send
\* of the turn is rejected.
FailsIn(t) ==
  \/ /\ turns[t].pc # "done" /\ turns'[t].pc = "done"
     /\ turns'[t].outcome \in FailureOutcomes
  \/ /\ Len(outbox'[t]) = Len(outbox[t]) + 1
     /\ ~outbox'[t][Len(outbox'[t])].ok

\* C32: a step in which the handling of one message fails changes no other
\* turn and none of its sends, no slash turn, no history of another channel,
\* no system event and not the route; the events not yet emitted stay due
\* and the monitor stays as it is: the listener goes on.
C32_FailureStaysInTurn ==
  [][\A t \in DOMAIN turns :
       FailsIn(t)
         => /\ DOMAIN turns' = DOMAIN turns
            /\ \A u \in DOMAIN turns \ {t} : turns'[u] = turns[u] /\ outbox'[u] = outbox[u]
            /\ \A c \in ChannelIds \ {turns[t].msg.channelId} :
                 guildHistories'[c] = guildHistories[c]
            /\ UNCHANGED << inbox, slashTurns, systemEvents, lastRoute, monitor >>]_vars

\* Reached: the handler of one message has ended in its catch while the turn
\* of a message of another channel is in flight.
C32_Witness ==
  \E t \in DOMAIN turns : \E u \in DOMAIN turns :
    /\ turns[t].pc = "done" /\ turns[t].outcome \in FailureOutcomes
    /\ turns[u].msg.channelId # turns[t].msg.channelId
    /\ turns[u].pc # "done"

\* The message has an attachment and no text: its content is absent, empty
\* or blank.
AttachmentOnly(m) ==
  m.attachment # << >> /\ (m.content = None \/ Trim(m.content) = << >>)

\* C35: a message without text that has an attachment is never dropped as
\* empty, and the text of its turn is the placeholder of the attachment's
\* MIME type.
C35_AttachmentOnlyProceeds ==
  \A t \in DOMAIN turns :
    AttachmentOnly(turns[t].msg)
      => /\ turns[t].outcome # "empty-content"
         /\ (turns[t].ctx # << >>
               => turns[t].ctx[1].Text = inferPlaceholder(turns[t].msg.attachment[1]))

\* The history entry was shown to the agent: it is the message of a turn that
\* reached the reply generator, or it is in the context block of such a turn.
ShownToAgent(entry) ==
  \E u \in DOMAIN turns :
    /\ turns[u].genCalled /\ turns[u].ctx # << >>
    /\ \/ turns[u].msg.id = entry.messageId
       \/ HistoryHas(turns[u].ctx[1].History, entry.messageId)

\* C37: the clear at the end of a turn removes only entries that were shown
\* to the agent.
C37_ClearedOnlyIfShown ==
  [][\A t \in DOMAIN turns :
       (~turns[t].clearedHistory /\ turns'[t].clearedHistory)
         => \A i \in DOMAIN guildHistories[turns[t].msg.channelId] :
              ShownToAgent(guildHistories[turns[t].msg.channelId][i])]_vars

\* The send of turn t in flight after the step is the one in flight before
\* it.
SameSendInFlight(t) ==
  /\ turns[t].call # << >>
  /\ turns'[t].call[1].no = turns[t].call[1].no
  /\ turns'[t].call[1].next = turns[t].call[1].next

\* C38: once the handler of a turn has finished (returned, or caught an
\* error), no send of the turn starts.
C38_NoSendStartsAfterHandler ==
  [][\A t \in DOMAIN turns :
       (turns[t].pc = "done" /\ turns'[t].call # << >>) => SameSendInFlight(t)]_vars

\* The outcomes of a guild message rejected by policy.
PolicyRejections == { "guild-not-configured", "channel-not-allowed", "guild-user-not-allowed" }

\* C39: the message of a guild turn rejected by policy (guild entry, channel
\* allow-list, guild users allow-list) was not appended to the history.
C39_RejectedLeavesHistory ==
  \A t \in DOMAIN turns :
    (isGuildMessage(turns[t].msg) /\ turns[t].outcome \in PolicyRejections)
      => ~turns[t].historyPushed

\* C33: once the abort signal is raised and the login is over, the promise
\* of the monitor is settled and the connection is torn down.
C33_AbortSettles ==
  (monitor.signal = "aborted" /\ monitor.phase # "login")
    => monitor.phase \in { "resolved", "rejected" } /\ ~monitor.connected

\* The s-th interaction was emitted and passed the admission checks of the
\* handler.
SlashAdmitted(s) == s \in DOMAIN slashTurns /\ SlashDrop(slashTurns[s].ia) = ""

\* A call of the interaction API that shows the user something was accepted.
UserSaw(turn) ==
  \E i \in DOMAIN turn.responses : turn.responses[i].ok /\ turn.responses[i].api # "deferReply"

\* The fallback error message was tried and the interaction API rejected it.
FallbackRejected(turn) ==
  /\ turn.responses # << >>
  /\ Last(turn.responses).content = SomethingWentWrong
  /\ ~Last(turn.responses).ok

\* The call i of the turn came after an accepted deferReply or reply.
AfterAck(turn, i) ==
  \E j \in 1..(i - 1) : turn.responses[j].ok /\ turn.responses[j].api \in { "deferReply", "reply" }

\* What the user of a finished turn saw is what the handler owes: the notice
\* that a message is required when there was no prompt, otherwise a first
\* edit of the deferred reply (the generated text or the notice that nothing
\* was generated); a fallback error message goes out as a follow-up after an
\* accepted deferReply or reply and as a reply otherwise.
SlashAnswered(turn) ==
  /\ turn.pc = "done"
  /\ UserSaw(turn) \/ FallbackRejected(turn)
  /\ turn.outcome = "message-required"
       => turn.responses = << [api |-> "reply", content |-> MessageRequired,
                                ephemeral |-> TRUE, ok |-> TRUE] >>
  /\ turn.outcome = "delivered"
       => /\ turn.responses[2].api = "editReply" /\ turn.responses[2].ok
          /\ \A i \in DOMAIN turn.responses : turn.responses[i].ok
  /\ \A i \in DOMAIN turn.responses :
       turn.responses[i].content = SomethingWentWrong
         => turn.responses[i].api = IF AfterAck(turn, i) THEN "followUp" ELSE "reply"

C40_ExpectedProvider(before) ==
  IF before.provider.type = "string" /\ Trim(before.provider.text) # << >>
    THEN JsString(ToLower(Trim(before.provider.text)))
  ELSE IF before.channel.type = "string" /\ Trim(before.channel.text) # << >>
    THEN JsString(ToLower(Trim(before.channel.text)))
  ELSE before.provider

C40_MigrationContract ==
  (job # NoJob /\ Len(job.flags) >= 1) =>
    /\ job.payload.channel = JsAbsent
    /\ job.payload.provider = C40_ExpectedProvider(job.before)
    /\ job.payload = [job.before EXCEPT !.provider = job.payload.provider,
                                        !.channel = job.payload.channel]
    /\ job.flags[Len(job.flags)] = (job.payload # job.before)
    /\ Len(job.flags) >= 2 => (~job.flags[Len(job.flags)] /\ job.payload = job.before)

\* A legacy payload with only a padded mixed-case channel was migrated (its
\* provider is now "a", the call returned true), and the call repeated on the
\* result returned false.
C40_Witness ==
  /\ job # NoJob
  /\ job.original.provider = JsAbsent
  /\ job.original.channel = JsString(<< " ", "A" >>)
  /\ job.flags = << TRUE, FALSE >>
  /\ job.payload.provider = JsString(<< "a" >>)
  /\ job.payload.channel = JsAbsent


\* The node.invoke calls of the run, in order.
SnapInvokes == SelectSeq(cli.calls, LAMBDA c : c.method = "node.invoke")

\* The ids of the nodes the gateway knows.
KnownNodeIds == { GatewayNodes[i].nodeId : i \in DOMAIN GatewayNodes }

\* The i-th invoke of a run for both facings asks the resolved node for
\* camera.snap, front first and back second.
SnapInvokeInOrder(i) ==
  /\ i <= 2
  /\ SnapInvokes[i].nodeId = cli.nodeId
  /\ cli.nodeId \in KnownNodeIds
  /\ SnapInvokes[i].command = "camera.snap"
  /\ SnapInvokes[i].facing = << WordFront, WordBack >>[i]

\* The file a result names holds the bytes the node captured for it.
SnapFileHolds(i) ==
  /\ cli.captured[i].facing = cli.results[i].facing
  /\ [path |-> cli.results[i].path, bytes |-> cli.captured[i].bytes] \in cli.files

\* Nothing is printed for a failed run, which ends with exit code 1.
SnapFailureSilent ==
  (cli.errors # << >> \/ cli.exited) =>
    cli.pc = "done" /\ cli.exited /\ cli.exitCode = 1 /\ cli.stdout = << >>

\* The timeoutMs of the invoke calls: 20000 by default, the number the
\* option starts with, none when it starts with no digit.
SnapTimeoutMs ==
  IF cli.opts.invokeTimeout = DefaultInvokeTimeout THEN << 20000 >>
  ELSE IF cli.opts.invokeTimeout = << "9", "0", "0", "s" >> THEN << 900 >>
  ELSE << >>

====
